---- MODULE Spec2Model ----
(***************************************************************************)
(* Fiscal-day state machine and receipt pipeline of the fiscalization API. *)
(*                                                                         *)
(* The database is one record of tables (db).  Every request runs in a     *)
(* slot; a slot advances one repository call at a time, so two requests of *)
(* the same device interleave exactly where the Go services leave the      *)
(* database between two calls.  Every step is a pure operator from         *)
(* (db, audit, slot) to the same triple; the actions apply one step and    *)
(* the serial semantics composes the same steps without interleaving.      *)
(*                                                                         *)
(* Money is kept in cents, timestamps are the arrival number of the        *)
(* request that read the clock, SHA-256 and the server signature are       *)
(* injective constructors over their input.  SQL NULL / Go nil is 0 for    *)
(* integer columns, "NULL" for text columns and <<>> for byte columns.     *)
(***************************************************************************)
EXTENDS Integers, Sequences, FiniteSets, TLC

VARIABLES db, audit, slots, nOps, faultsLeft, run, calc, pki

vars == <<db, audit, slots, nOps, faultsLeft, run, calc, pki>>

----------------------------------------------------------------------------
(* Bounds *)

MaxOps == 4          \* requests that arrive in one behaviour
MaxSerOps == 3       \* the same, in behaviours whose finished requests are recorded
MaxNoteOps == 3      \* the same, in behaviours with debit notes
MaxStoredOps == 3    \* the same, in behaviours that start from a stored day
MaxCreditOps == 2    \* the same, in behaviours that start from an accepted invoice
MaxFaultOps == 3     \* the same, in behaviours with database failures
NumSlots == 2        \* requests in progress at the same time
MaxGlobalNo == 3     \* receiptGlobalNo values a device sends
MaxCounter == 2      \* receiptCounter values a device sends
MaxFaults == 1       \* requests that meet a database failure, where failures happen
MaxErrors == 3       \* rule errors one validation emits, where validations run alone
MaxSerialNumber == 2 \* serial numbers drawn for a certificate
MaxIssued == 3       \* certificates issued in one behaviour
MaxTaxRows == 2      \* tax rows of a receipt, where receipts are hashed alone
MaxTwoOps == 3       \* requests that arrive in one behaviour, where two devices send them

----------------------------------------------------------------------------
(* Enumerations and fixed data *)

FiscalDayStatusClosed == 0
FiscalDayStatusOpened == 1
FiscalDayStatusCloseInitiated == 2
FiscalDayStatusCloseFailed == 3

FiscalDayReconciliationModeAuto == 0
FiscalDayReconciliationModeManual == 1
NoMode == -1         \* reconciliation_mode IS NULL

ReceiptTypeFiscalInvoice == 0
ReceiptTypeCreditNote == 1
ReceiptTypeDebitNote == 2

MoneyTypeCash == 0
NoMoneyType == -1    \* fiscal_counter_money_type IS NULL
NoPercent == -1      \* tax_percent IS NULL

ValidationColorGrey == "Grey"
ValidationColorYellow == "Yellow"
ValidationColorRed == "Red"
NoColor == "NULL"

DeviceOperatingModeOnline == 0
DeviceOperatingModeOffline == 1

\* devices rows the requests are authenticated for
Devices == {1001}

\* a second devices row, whose requests arrive where run.two
SecondDevices == {1002}

devices ==
  [d \in Devices \cup SecondDevices |->
     [device_id |-> d, operating_mode |-> DeviceOperatingModeOnline]]

Currencies == {"USD", "XXX"}

\* the one tax row and payment every submitted receipt carries (amounts in cents)
ReceiptTotalCents == 10000
TaxAmountCents == 1304
TaxID == 1
TaxPercent == 1500

----------------------------------------------------------------------------
(* Rows *)

\* a nil *SignatureDataEx / NULL signature column
NoSignature == [Hash |-> <<>>, Signature |-> <<>>]

NoDay ==
  [id |-> 0, device_id |-> 0, fiscal_day_no |-> 0, fiscal_day_opened |-> 0,
   fiscal_day_closed |-> 0, status |-> FiscalDayStatusClosed,
   reconciliation_mode |-> NoMode, fiscal_day_device_signature |-> "NULL",
   fiscal_day_server_signature |-> NoSignature, closing_error_code |-> 0,
   last_receipt_global_no |-> 0]

\* models.CreditDebitNote with every field nil
NoReference == [ReceiptID |-> 0, DeviceID |-> 0, ReceiptGlobalNo |-> 0, FiscalDayNo |-> 0]

NoReceipt ==
  [id |-> 0, receipt_id |-> 0, device_id |-> 0, fiscal_day_id |-> 0,
   receipt_type |-> 0, receipt_currency |-> "NULL", receipt_counter |-> 0,
   receipt_global_no |-> 0, receipt_total |-> 0, credit_debit_note |-> NoReference,
   receipt_device_signature |-> "NULL", receipt_server_signature |-> NoSignature,
   receipt_hash |-> <<>>, validation_color |-> NoColor,
   validation_errors |-> <<>>, server_date |-> 0]

EmptyDB ==
  [fiscal_days |-> {}, receipts |-> {}, receipt_lines |-> {},
   receipt_taxes |-> {}, receipt_payments |-> {}, fiscal_counters |-> {},
   seq |-> [fiscal_days_id |-> 0, receipts_id |-> 0, receipts_receipt_id |-> 0,
           fiscal_counters_id |-> 0]]

\* SUM(...) of a column: F maps each row of S to the summed value
RECURSIVE SumOf(_, _)
SumOf(F, S) ==
  IF S = {} THEN 0
  ELSE LET x == CHOOSE y \in S : TRUE IN F[x] + SumOf(F, S \ {x})

\* F applied to the value of e, which is computed once
Once(e, F(_)) == CHOOSE y \in {F(v) : v \in {e}} : TRUE

Abs(x) == IF x < 0 THEN -x ELSE x

Max(S) == CHOOSE x \in S : \A y \in S : y <= x

----------------------------------------------------------------------------
(* fiscalDayRepository *)

\* the same query without its WHERE device_id = $1
GetCurrentAnyDevice(d, deviceID) ==
  IF d.fiscal_days = {} THEN NoDay
  ELSE CHOOSE r \in d.fiscal_days :
         \A q \in d.fiscal_days :
           q.fiscal_day_no < r.fiscal_day_no
             \/ (q.fiscal_day_no = r.fiscal_day_no /\ q.id <= r.id)

\* SELECT * FROM fiscal_days WHERE device_id = $1 ORDER BY fiscal_day_no DESC LIMIT 1
GetCurrent(d, deviceID) ==
  LET rows == {r \in d.fiscal_days : r.device_id = deviceID} IN
  IF rows = {} THEN NoDay
  ELSE CHOOSE r \in rows : \A q \in rows : q.fiscal_day_no <= r.fiscal_day_no

\* the insert into a fiscal_days table without UNIQUE(device_id, fiscal_day_no)
FiscalDayCreateNoUnique(d, fiscalDay, dbFails) ==
  LET id  == d.seq.fiscal_days_id + 1
      d1  == [d EXCEPT !.seq.fiscal_days_id = id]
      fk  == fiscalDay.device_id \in DOMAIN devices
      row == [NoDay EXCEPT !.id = id,
                           !.device_id = fiscalDay.device_id,
                           !.fiscal_day_no = fiscalDay.fiscal_day_no,
                           !.fiscal_day_opened = fiscalDay.fiscal_day_opened,
                           !.status = fiscalDay.status]
  IN IF dbFails THEN [db |-> d, err |-> TRUE, id |-> 0]
     ELSE IF ~fk THEN [db |-> d1, err |-> TRUE, id |-> 0]
     ELSE [db |-> [d1 EXCEPT !.fiscal_days = @ \cup {row}], err |-> FALSE, id |-> id]

\* INSERT INTO fiscal_days (device_id, fiscal_day_no, fiscal_day_opened, status).
\* The id sequence advances even when the insert is refused.
FiscalDayCreate(d, fiscalDay, dbFails) ==
  LET id  == d.seq.fiscal_days_id + 1
      d1  == [d EXCEPT !.seq.fiscal_days_id = id]
      dup == \E r \in d.fiscal_days :
               r.device_id = fiscalDay.device_id /\ r.fiscal_day_no = fiscalDay.fiscal_day_no
      fk  == fiscalDay.device_id \in DOMAIN devices
      row == [NoDay EXCEPT !.id = id,
                           !.device_id = fiscalDay.device_id,
                           !.fiscal_day_no = fiscalDay.fiscal_day_no,
                           !.fiscal_day_opened = fiscalDay.fiscal_day_opened,
                           !.status = fiscalDay.status]
  IN IF dbFails THEN [db |-> d, err |-> TRUE, id |-> 0]
     ELSE IF dup \/ ~fk THEN [db |-> d1, err |-> TRUE, id |-> 0]
     ELSE [db |-> [d1 EXCEPT !.fiscal_days = @ \cup {row}], err |-> FALSE, id |-> id]

\* UPDATE fiscal_days SET fiscal_day_closed, status, reconciliation_mode,
\* both signatures, closing_error_code, last_receipt_global_no WHERE id = $8:
\* every one of the seven columns is overwritten from the caller's copy.
FiscalDayUpdate(d, fiscalDay, dbFails) ==
  LET upd(r) == IF r.id # fiscalDay.id THEN r
                ELSE [r EXCEPT !.fiscal_day_closed = fiscalDay.fiscal_day_closed,
                               !.status = fiscalDay.status,
                               !.reconciliation_mode = fiscalDay.reconciliation_mode,
                               !.fiscal_day_device_signature = fiscalDay.fiscal_day_device_signature,
                               !.fiscal_day_server_signature = fiscalDay.fiscal_day_server_signature,
                               !.closing_error_code = fiscalDay.closing_error_code,
                               !.last_receipt_global_no = fiscalDay.last_receipt_global_no]
  IN IF dbFails THEN [db |-> d, err |-> TRUE]
     ELSE [db |-> [d EXCEPT !.fiscal_days = {upd(r) : r \in d.fiscal_days}], err |-> FALSE]

\* a counter row without its fiscal_day_id
CounterOf(row) ==
  [FiscalCounterType |-> row.fiscal_counter_type,
   FiscalCounterCurrency |-> row.fiscal_counter_currency,
   FiscalCounterTaxID |-> row.fiscal_counter_tax_id,
   FiscalCounterTaxPercent |-> row.fiscal_counter_tax_percent,
   FiscalCounterMoneyType |-> row.fiscal_counter_money_type,
   FiscalCounterValue |-> row.fiscal_counter_value]

\* the counters of a list whose value is not zero, in the order of the list
RECURSIVE NonZero(_)
NonZero(counters) ==
  IF counters = <<>> THEN <<>>
  ELSE IF Head(counters).FiscalCounterValue = 0 THEN NonZero(Tail(counters))
  ELSE <<Head(counters)>> \o NonZero(Tail(counters))

\* DELETE FROM fiscal_counters WHERE fiscal_day_id = $1, then one INSERT per
\* counter of the list whose value is not zero
CreateCounters(d, fiscalDayID, counters, dbFails) ==
  LET kept == {r \in d.fiscal_counters : r.fiscal_day_id # fiscalDayID}
      ins  == NonZero(counters)
      base == d.seq.fiscal_counters_id
      rows == {[id |-> base + i,
                fiscal_day_id |-> fiscalDayID,
                fiscal_counter_type |-> ins[i].FiscalCounterType,
                fiscal_counter_currency |-> ins[i].FiscalCounterCurrency,
                fiscal_counter_tax_id |-> ins[i].FiscalCounterTaxID,
                fiscal_counter_tax_percent |-> ins[i].FiscalCounterTaxPercent,
                fiscal_counter_money_type |-> ins[i].FiscalCounterMoneyType,
                fiscal_counter_value |-> ins[i].FiscalCounterValue]
               : i \in 1..Len(ins)}
  IN IF dbFails THEN [db |-> d, err |-> TRUE]
     ELSE [db |-> [d EXCEPT !.fiscal_counters = kept \cup rows,
                            !.seq.fiscal_counters_id = base + Len(ins)],
           err |-> FALSE]

\* the place of a currency code in the ordering of the text column
CurrencyOrder == <<"EUR", "GBP", "USD", "XXX", "ZAR", "ZWL">>

Collate(currency) == CHOOSE i \in 1..Len(CurrencyOrder) : CurrencyOrder[i] = currency

\* ORDER BY fiscal_counter_type, fiscal_counter_currency, fiscal_counter_tax_id
\* (a NULL tax id comes last); rows equal in all three come in id order
CounterRowBefore(x, y) ==
  LET kx == <<x.fiscal_counter_type, Collate(x.fiscal_counter_currency),
              IF x.fiscal_counter_tax_id = 0 THEN 2147483647 ELSE x.fiscal_counter_tax_id, x.id>>
      ky == <<y.fiscal_counter_type, Collate(y.fiscal_counter_currency),
              IF y.fiscal_counter_tax_id = 0 THEN 2147483647 ELSE y.fiscal_counter_tax_id, y.id>>
  IN \E k \in 1..4 : kx[k] < ky[k] /\ \A j \in 1..(k - 1) : kx[j] = ky[j]

RECURSIVE OrderCounterRows(_)
OrderCounterRows(rows) ==
  IF rows = {} THEN <<>>
  ELSE LET first == CHOOSE x \in rows : \A y \in rows \ {x} : CounterRowBefore(x, y)
       IN <<CounterOf(first)>> \o OrderCounterRows(rows \ {first})

\* SELECT * FROM fiscal_counters WHERE fiscal_day_id = $1 AND fiscal_counter_value != 0
\* ORDER BY fiscal_counter_type, fiscal_counter_currency, fiscal_counter_tax_id
GetCounters(d, fiscalDayID) ==
  OrderCounterRows({x \in d.fiscal_counters :
                      x.fiscal_day_id = fiscalDayID /\ x.fiscal_counter_value # 0})

\* one GROUP BY rt.tax_id, rt.tax_percent, r.receipt_currency query
TaxCounters(d, fiscalDayID, receiptType, counterType, salesColumn) ==
  LET rs   == {r \in d.receipts : r.fiscal_day_id = fiscalDayID /\ r.receipt_type = receiptType}
      cur(t) == (CHOOSE r \in rs : r.id = t.receipt_id).receipt_currency
      ts   == {t \in d.receipt_taxes : \E r \in rs : r.id = t.receipt_id}
      keys == {<<t.tax_id, t.tax_percent, cur(t)>> : t \in ts}
      col  == [t \in ts |-> IF salesColumn THEN t.sales_amount_with_tax ELSE t.tax_amount]
  IN {[FiscalCounterType |-> counterType,
       FiscalCounterCurrency |-> k[3],
       FiscalCounterTaxID |-> k[1],
       FiscalCounterTaxPercent |-> k[2],
       FiscalCounterMoneyType |-> NoMoneyType,
       FiscalCounterValue |-> SumOf(col, {t \in ts : <<t.tax_id, t.tax_percent, cur(t)>> = k})]
      : k \in keys}

\* the GROUP BY rp.money_type_code, r.receipt_currency query
BalanceCounters(d, fiscalDayID) ==
  LET rs   == {r \in d.receipts : r.fiscal_day_id = fiscalDayID}
      cur(p) == (CHOOSE r \in rs : r.id = p.receipt_id).receipt_currency
      ps   == {p \in d.receipt_payments : \E r \in rs : r.id = p.receipt_id}
      keys == {<<p.money_type_code, cur(p)>> : p \in ps}
      col  == [p \in ps |-> p.payment_amount]
  IN {[FiscalCounterType |-> 6,
       FiscalCounterCurrency |-> k[2],
       FiscalCounterTaxID |-> 0,
       FiscalCounterTaxPercent |-> NoPercent,
       FiscalCounterMoneyType |-> k[1],
       FiscalCounterValue |-> SumOf(col, {p \in ps : <<p.money_type_code, cur(p)>> = k})]
      : k \in keys}

\* five aggregation queries: types 0, 1, 2, 4 and 6
calculateActualCounters(d, fiscalDayID) ==
  TaxCounters(d, fiscalDayID, ReceiptTypeFiscalInvoice, 0, TRUE)
    \cup TaxCounters(d, fiscalDayID, ReceiptTypeFiscalInvoice, 1, FALSE)
    \cup TaxCounters(d, fiscalDayID, ReceiptTypeCreditNote, 2, TRUE)
    \cup TaxCounters(d, fiscalDayID, ReceiptTypeDebitNote, 4, TRUE)
    \cup BalanceCounters(d, fiscalDayID)

\* type_currency_[taxID_][percent_][moneyType]: a nil part contributes nothing,
\* and the separators keep keys with different parts apart
counterKey(c) ==
  <<c.FiscalCounterType, c.FiscalCounterCurrency, c.FiscalCounterTaxID,
    c.FiscalCounterTaxPercent, c.FiscalCounterMoneyType>>

\* submittedMap and actualMap: a later counter of a list replaces an earlier
\* one with the same key.  The maps must have the same number of keys, every
\* submitted key must be an actual key, and the values must be within one cent
compareCounters(submitted, actual) ==
  LET sk == {counterKey(submitted[i]) : i \in DOMAIN submitted}
      ak == {counterKey(c) : c \in actual}
      last(k) == CHOOSE i \in DOMAIN submitted :
                   /\ counterKey(submitted[i]) = k
                   /\ \A j \in DOMAIN submitted : counterKey(submitted[j]) = k => j <= i
      submittedVal(k) == submitted[last(k)].FiscalCounterValue
      actualVal(k) == (CHOOSE c \in actual : counterKey(c) = k).FiscalCounterValue
  IN /\ Cardinality(sk) = Cardinality(ak)
     /\ \A k \in sk : k \in ak /\ Abs(submittedVal(k) - actualVal(k)) <= 1

ValidateCounters(d, fiscalDayID, submittedCounters) ==
  compareCounters(submittedCounters, calculateActualCounters(d, fiscalDayID))

\* GROUP BY receipt_type, receipt_currency over the day's receipts
GetFiscalDayDocumentQuantities(d, fiscalDayID) ==
  LET rs   == {r \in d.receipts : r.fiscal_day_id = fiscalDayID}
      keys == {<<r.receipt_type, r.receipt_currency>> : r \in rs}
      grp(k) == {r \in rs : <<r.receipt_type, r.receipt_currency>> = k}
  IN {[receiptType |-> k[1], receiptCurrency |-> k[2],
       receiptQuantity |-> Cardinality(grp(k)),
       receiptTotalAmount |-> SumOf([r \in grp(k) |-> r.receipt_total], grp(k))] : k \in keys}

----------------------------------------------------------------------------
(* receiptRepository *)

\* GetByReceiptID found no row
NoOriginal == [found |-> FALSE, receipt |-> NoReceipt, ReceiptTaxes |-> {}]

\* SELECT * FROM receipts WHERE receipt_id = $1, then loadReceiptRelations
GetByReceiptID(d, receiptID) ==
  LET rows == {r \in d.receipts : r.receipt_id = receiptID} IN
  IF rows = {} THEN NoOriginal
  ELSE LET r == CHOOSE x \in rows : TRUE
       IN [found |-> TRUE, receipt |-> r,
           ReceiptTaxes |-> {t \in d.receipt_taxes : t.receipt_id = r.id}]

\* two queries: ... WHERE receipt_type = $1 AND credit_debit_note->>'receiptID' = $2,
\* for credit notes and for debit notes
GetCreditDebitNotes(d, originalReceiptID) ==
  LET of(receiptType) == {r \in d.receipts : /\ r.receipt_type = receiptType
                                             /\ r.credit_debit_note.ReceiptID # 0
                                             /\ r.credit_debit_note.ReceiptID = originalReceiptID}
  IN [creditNotes |-> of(ReceiptTypeCreditNote), debitNotes |-> of(ReceiptTypeDebitNote)]

\* SELECT * FROM receipts WHERE device_id = $1 AND receipt_global_no = $2
GetByGlobalNo(d, deviceID, globalNo) ==
  LET rows == {r \in d.receipts : r.device_id = deviceID /\ r.receipt_global_no = globalNo} IN
  IF rows = {} THEN NoReceipt ELSE CHOOSE r \in rows : TRUE

\* ... WHERE device_id = $1 AND fiscal_day_id = $2 AND receipt_global_no < $3
\* ORDER BY receipt_global_no DESC LIMIT 1
GetPreviousReceipt(d, deviceID, fiscalDayID, globalNo) ==
  LET rows == {r \in d.receipts : /\ r.device_id = deviceID
                                  /\ r.fiscal_day_id = fiscalDayID
                                  /\ r.receipt_global_no < globalNo} IN
  IF rows = {} THEN NoReceipt
  ELSE CHOOSE r \in rows : \A q \in rows : q.receipt_global_no <= r.receipt_global_no

\* ... WHERE fiscal_day_id = $1 AND (validation_color = 'Red' OR validation_color = 'Grey')
GetReceiptsWithValidationErrors(d, fiscalDayID) ==
  {r \in d.receipts : /\ r.fiscal_day_id = fiscalDayID
                      /\ r.validation_color \in {ValidationColorRed, ValidationColorGrey}}

\* an insert into a table without UNIQUE(device_id, receipt_global_no)
CreateWithLinesNoUnique(d, receipt, dbFails) ==
  LET id  == d.seq.receipts_id + 1
      rid == d.seq.receipts_receipt_id + 1
      row == [NoReceipt EXCEPT !.id = id, !.receipt_id = rid,
                               !.device_id = receipt.DeviceID,
                               !.fiscal_day_id = receipt.FiscalDayID,
                               !.receipt_type = receipt.ReceiptType,
                               !.receipt_currency = receipt.ReceiptCurrency,
                               !.receipt_counter = receipt.ReceiptCounter,
                               !.receipt_global_no = receipt.ReceiptGlobalNo,
                               !.receipt_total = receipt.ReceiptTotal,
                               !.credit_debit_note = receipt.CreditDebitNote,
                               !.receipt_device_signature = receipt.ReceiptDeviceSignature,
                               !.receipt_hash = receipt.ReceiptHash]
  IN IF dbFails THEN [db |-> d, err |-> TRUE, ID |-> 0, ReceiptID |-> 0]
     ELSE [db |-> [d EXCEPT !.seq.receipts_id = id, !.seq.receipts_receipt_id = rid,
                            !.receipts = @ \cup {row}],
           err |-> FALSE, ID |-> id, ReceiptID |-> rid]

\* an insert that overwrites the stored row of the same device and
\* receipt_global_no instead of being refused
CreateWithLinesReplacing(d, receipt, dbFails) ==
  LET id  == d.seq.receipts_id + 1
      rid == d.seq.receipts_receipt_id + 1
      old == {r \in d.receipts : /\ r.device_id = receipt.DeviceID
                                 /\ r.receipt_global_no = receipt.ReceiptGlobalNo}
      row == [NoReceipt EXCEPT !.id = id, !.receipt_id = rid,
                               !.device_id = receipt.DeviceID,
                               !.fiscal_day_id = receipt.FiscalDayID,
                               !.receipt_type = receipt.ReceiptType,
                               !.receipt_currency = receipt.ReceiptCurrency,
                               !.receipt_counter = receipt.ReceiptCounter,
                               !.receipt_global_no = receipt.ReceiptGlobalNo,
                               !.receipt_total = receipt.ReceiptTotal,
                               !.receipt_device_signature = receipt.ReceiptDeviceSignature,
                               !.receipt_hash = receipt.ReceiptHash]
  IN IF dbFails THEN [db |-> d, err |-> TRUE, ID |-> 0, ReceiptID |-> 0]
     ELSE [db |-> [d EXCEPT !.seq.receipts_id = id, !.seq.receipts_receipt_id = rid,
                            !.receipts = (@ \ old) \cup {row}],
           err |-> FALSE, ID |-> id, ReceiptID |-> rid]

\* One transaction: INSERT INTO receipts (the eighteen listed columns), then the
\* lines, taxes and payments; any failure rolls all of it back.  The insert
\* does not list receipt_server_signature, validation_color, validation_errors
\* or server_date, so these columns keep their default NULL.  Both sequences
\* advance even when the insert is refused.
CreateWithLines(d, receipt, dbFails) ==
  LET id  == d.seq.receipts_id + 1
      rid == d.seq.receipts_receipt_id + 1
      d1  == [d EXCEPT !.seq.receipts_id = id, !.seq.receipts_receipt_id = rid]
      dup == \E r \in d.receipts : /\ r.device_id = receipt.DeviceID
                                   /\ r.receipt_global_no = receipt.ReceiptGlobalNo
      fk  == /\ receipt.DeviceID \in DOMAIN devices
             /\ \E f \in d.fiscal_days : f.id = receipt.FiscalDayID
      row == [NoReceipt EXCEPT !.id = id,
                               !.receipt_id = rid,
                               !.device_id = receipt.DeviceID,
                               !.fiscal_day_id = receipt.FiscalDayID,
                               !.receipt_type = receipt.ReceiptType,
                               !.receipt_currency = receipt.ReceiptCurrency,
                               !.receipt_counter = receipt.ReceiptCounter,
                               !.receipt_global_no = receipt.ReceiptGlobalNo,
                               !.receipt_total = receipt.ReceiptTotal,
                               !.credit_debit_note = receipt.CreditDebitNote,
                               !.receipt_device_signature = receipt.ReceiptDeviceSignature,
                               !.receipt_hash = receipt.ReceiptHash]
      lines    == {[receipt_id |-> id, receipt_line_no |-> i,
                    receipt_line_total |-> receipt.ReceiptLines[i].ReceiptLineTotal]
                   : i \in DOMAIN receipt.ReceiptLines}
      taxes    == {[receipt_id |-> id, no |-> i,
                    tax_id |-> receipt.ReceiptTaxes[i].TaxID,
                    tax_percent |-> receipt.ReceiptTaxes[i].TaxPercent,
                    tax_amount |-> receipt.ReceiptTaxes[i].TaxAmount,
                    sales_amount_with_tax |-> receipt.ReceiptTaxes[i].SalesAmountWithTax]
                   : i \in DOMAIN receipt.ReceiptTaxes}
      payments == {[receipt_id |-> id, no |-> i,
                    money_type_code |-> receipt.ReceiptPayments[i].MoneyTypeCode,
                    payment_amount |-> receipt.ReceiptPayments[i].PaymentAmount]
                   : i \in DOMAIN receipt.ReceiptPayments}
  IN IF dbFails THEN [db |-> d, err |-> TRUE, ID |-> 0, ReceiptID |-> 0]
     ELSE IF dup \/ ~fk THEN [db |-> d1, err |-> TRUE, ID |-> 0, ReceiptID |-> 0]
     ELSE [db |-> [d1 EXCEPT !.receipts = @ \cup {row},
                             !.receipt_lines = @ \cup lines,
                             !.receipt_taxes = @ \cup taxes,
                             !.receipt_payments = @ \cup payments],
           err |-> FALSE, ID |-> id, ReceiptID |-> rid]

----------------------------------------------------------------------------
(* ValidationService *)

NoResult == [IsValid |-> TRUE, Color |-> NoColor, Errors |-> <<>>]

\* addError that keeps the color of the latest error
addErrorLatest(r, code, color) ==
  [IsValid |-> FALSE, Errors |-> Append(r.Errors, code), Color |-> color]

\* sets IsValid false, appends the code, keeps the most severe color
addError(r, code, color) ==
  [IsValid |-> FALSE,
   Errors  |-> Append(r.Errors, code),
   Color   |-> IF r.Color = NoColor THEN color
               ELSE IF color = ValidationColorRed THEN color
               ELSE IF color = ValidationColorYellow /\ r.Color = ValidationColorGrey THEN color
               ELSE r.Color]

\* SubmitReceipt merges the credit/debit note result into the receipt's:
\* IsValid is and-ed, the errors are appended, and the note's color replaces
\* the receipt's when the receipt has none or the note's is Red
mergeValidation(validationResult, cdValidation) ==
  [IsValid |-> validationResult.IsValid /\ cdValidation.IsValid,
   Errors  |-> validationResult.Errors \o cdValidation.Errors,
   Color   |-> IF cdValidation.Color # NoColor
                  /\ (validationResult.Color = NoColor \/ cdValidation.Color = ValidationColorRed)
               THEN cdValidation.Color
               ELSE validationResult.Color]

\* RCPT032 ends the validation; RCPT033 reads the receipt dates, which every
\* receipt here carries within twelve months of each other; RCPT029 needs a
\* fiscal invoice, for which SubmitReceipt does not call this
ValidateCreditDebitNote(note, originalReceipt, allCreditNotes, allDebitNotes) ==
  LET totalCreditAmount == SumOf([x \in allCreditNotes |-> x.receipt_total], allCreditNotes)
      totalDebitAmount  == SumOf([x \in allDebitNotes |-> x.receipt_total], allDebitNotes)
      remainingAmount   == originalReceipt.receipt.receipt_total - totalCreditAmount
                             + totalDebitAmount
      originalTaxIDs    == {t.tax_id : t \in originalReceipt.ReceiptTaxes}
      r0 == NoResult
      r1 == IF note.ReceiptNotes = "NULL" \/ note.ReceiptNotes = ""
            THEN addError(r0, "RCPT034", ValidationColorRed) ELSE r0
      r2 == IF /\ note.ReceiptType = ReceiptTypeCreditNote
               /\ remainingAmount + note.ReceiptTotal < 0
            THEN addError(r1, "RCPT035", ValidationColorRed) ELSE r1
      r3 == IF \E k \in DOMAIN note.ReceiptTaxes : note.ReceiptTaxes[k].TaxID \notin originalTaxIDs
            THEN addError(r2, "RCPT036", ValidationColorRed) ELSE r2
      r4 == IF note.ReceiptCurrency # originalReceipt.receipt.receipt_currency
            THEN addError(r3, "RCPT042", ValidationColorRed) ELSE r3
  IN IF ~originalReceipt.found THEN addError(r0, "RCPT032", ValidationColorRed) ELSE r4

isValidCurrency(currency) == currency \in {"USD", "ZWL", "EUR", "GBP", "ZAR"}

\* RCPT019/RCPT037 are decided on the line totals, RCPT038 on the tax rows,
\* RCPT039 on the payments, RCPT040 on the sign; tolerance 0.01 is one cent
validateReceiptTotals(receipt, result) ==
  LET linesTotalSum   == SumOf([i \in DOMAIN receipt.ReceiptLines |-> receipt.ReceiptLines[i].ReceiptLineTotal],
                               DOMAIN receipt.ReceiptLines)
      taxesSum        == SumOf([i \in DOMAIN receipt.ReceiptTaxes |-> receipt.ReceiptTaxes[i].TaxAmount],
                               DOMAIN receipt.ReceiptTaxes)
      salesWithTaxSum == SumOf([i \in DOMAIN receipt.ReceiptTaxes |-> receipt.ReceiptTaxes[i].SalesAmountWithTax],
                               DOMAIN receipt.ReceiptTaxes)
      paymentsSum     == SumOf([i \in DOMAIN receipt.ReceiptPayments |-> receipt.ReceiptPayments[i].PaymentAmount],
                               DOMAIN receipt.ReceiptPayments)
      r1 == IF receipt.ReceiptLinesTaxInclusive
            THEN IF Abs(receipt.ReceiptTotal - linesTotalSum) > 1
                 THEN addError(result, "RCPT019", ValidationColorRed) ELSE result
            ELSE IF Abs(receipt.ReceiptTotal - (linesTotalSum + taxesSum)) > 1
                 THEN addError(result, "RCPT037", ValidationColorRed) ELSE result
      r2 == IF Abs(receipt.ReceiptTotal - salesWithTaxSum) > 1
            THEN addError(r1, "RCPT038", ValidationColorRed) ELSE r1
      r3 == IF Abs(receipt.ReceiptTotal - paymentsSum) > 1
            THEN addError(r2, "RCPT039", ValidationColorRed) ELSE r2
      r4 == IF receipt.ReceiptType \in {ReceiptTypeFiscalInvoice, ReceiptTypeDebitNote}
            THEN IF receipt.ReceiptTotal < 0
                 THEN addError(r3, "RCPT040", ValidationColorRed) ELSE r3
            ELSE IF receipt.ReceiptType = ReceiptTypeCreditNote /\ receipt.ReceiptTotal > 0
                 THEN addError(r3, "RCPT040", ValidationColorRed) ELSE r3
  IN r4

\* The rules that read the modelled fields, in source order.  The rules on
\* dates, prices, quantities, tax rates, buyer and HS codes read fields that
\* every submitted receipt here carries with consistent values.
ValidateReceipt(receipt, previousReceipt) ==
  LET r0 == NoResult
      r1 == IF ~isValidCurrency(receipt.ReceiptCurrency)
            THEN addError(r0, "RCPT010", ValidationColorRed) ELSE r0
      r2 == IF previousReceipt = NoReceipt
            THEN IF receipt.ReceiptCounter # 1
                 THEN addError(r1, "RCPT011", ValidationColorGrey) ELSE r1
            ELSE IF receipt.ReceiptCounter # previousReceipt.receipt_counter + 1
                 THEN addError(r1, "RCPT011", ValidationColorRed) ELSE r1
      r3 == IF previousReceipt = NoReceipt
            THEN IF receipt.ReceiptGlobalNo # 1 /\ receipt.ReceiptCounter # 1
                 THEN addError(r2, "RCPT012", ValidationColorGrey) ELSE r2
            ELSE IF /\ receipt.ReceiptGlobalNo # previousReceipt.receipt_global_no + 1
                    /\ receipt.ReceiptGlobalNo # 1
                 THEN addError(r2, "RCPT012", ValidationColorRed) ELSE r2
      r4 == IF /\ receipt.ReceiptType \in {ReceiptTypeCreditNote, ReceiptTypeDebitNote}
               /\ ~receipt.HasCreditDebitNote
            THEN addError(r3, "RCPT015", ValidationColorRed) ELSE r3
      r5 == IF Len(receipt.ReceiptLines) = 0
            THEN addError(r4, "RCPT016", ValidationColorRed) ELSE r4
      r6 == IF Len(receipt.ReceiptTaxes) = 0
            THEN addError(r5, "RCPT017", ValidationColorRed) ELSE r5
      r7 == IF Len(receipt.ReceiptPayments) = 0
            THEN addError(r6, "RCPT018", ValidationColorRed) ELSE r6
  IN validateReceiptTotals(receipt, r7)

----------------------------------------------------------------------------
(* utils and CryptoService *)

\* strings.ToUpper(receipt.ReceiptType.String())
ReceiptTypeString(receiptType) ==
  CASE receiptType = ReceiptTypeFiscalInvoice -> "FISCALINVOICE"
    [] receiptType = ReceiptTypeCreditNote    -> "CREDITNOTE"
    [] receiptType = ReceiptTypeDebitNote     -> "DEBITNOTE"

\* strings.ToUpper on a currency code
UpperCurrency(currency) == IF currency = "usd" THEN "USD" ELSE currency

NoTaxCode == "NULL"   \* taxCode absent

\* the tax codes receipts carry, in byte order
TaxCodeOrder == <<"", "A", "B">>

\* the taxCode the sort compares: empty when absent
TaxCodeOf(tax) == IF tax.TaxCode = NoTaxCode THEN "" ELSE tax.TaxCode

\* the less function handed to sort.Slice: taxID, then taxCode
TaxLess(a, b) ==
  IF a.TaxID # b.TaxID THEN a.TaxID < b.TaxID
  ELSE (CHOOSE k \in DOMAIN TaxCodeOrder : TaxCodeOrder[k] = TaxCodeOf(a))
         < (CHOOSE k \in DOMAIN TaxCodeOrder : TaxCodeOrder[k] = TaxCodeOf(b))

RECURSIVE InsertTax(_, _)
\* the row moves left past every row it is less than
InsertTax(sorted, tax) ==
  IF sorted = <<>> \/ ~TaxLess(tax, sorted[Len(sorted)]) THEN Append(sorted, tax)
  ELSE Append(InsertTax(SubSeq(sorted, 1, Len(sorted) - 1), tax), sorted[Len(sorted)])

RECURSIVE SortTaxes(_)
\* sort.Slice on fewer than twelve rows is an insertion sort: rows that
\* the less function does not order keep the order they came in
SortTaxes(taxes) ==
  IF taxes = <<>> THEN <<>>
  ELSE InsertTax(SortTaxes(SubSeq(taxes, 1, Len(taxes) - 1)), taxes[Len(taxes)])

\* fmt.Sprintf("%.2f") of a percentage held in hundredths
FormatPercent(percent) ==
  ToString(percent \div 100) \o "." \o ToString((percent % 100) \div 10) \o ToString(percent % 10)

\* what one tax row adds to the text: taxCode and taxPercent when present,
\* taxAmount and salesAmountWithTax in cents
TaxText(tax) ==
  TaxCodeOf(tax)
    \o (IF tax.TaxPercent # NoPercent THEN FormatPercent(tax.TaxPercent) ELSE "")
    \o ToString(tax.TaxAmount) \o ToString(tax.SalesAmountWithTax)

RECURSIVE TaxesText(_)
TaxesText(taxes) == IF taxes = <<>> THEN "" ELSE TaxText(Head(taxes)) \o TaxesText(Tail(taxes))

\* the text the string builder holds before the previous hash is written:
\* deviceID, type, currency, globalNo, total in cents and the sorted tax
\* rows, one after the other with nothing between them
CanonicalReceipt(receipt) ==
  ToString(receipt.DeviceID) \o ReceiptTypeString(receipt.ReceiptType)
    \o UpperCurrency(receipt.ReceiptCurrency) \o ToString(receipt.ReceiptGlobalNo)
    \o ToString(receipt.ReceiptTotal) \o TaxesText(SortTaxes(receipt.ReceiptTaxes))

\* SHA-256 over the text and, when there is one, the previous hash
GenerateReceiptHash(receipt, previousHash) ==
  <<"sha256", CanonicalReceipt(receipt), previousHash>>

SignData(data) == <<"signed", data>>

\* signs base64(device signature) || receipt.ReceiptID || serverDate
generateServerSignature(receipt, serverDate) ==
  [Hash |-> receipt.ReceiptHash,
   Signature |-> SignData(<<receipt.ReceiptDeviceSignature, receipt.ReceiptID, serverDate>>)]

\* server-side day hash over deviceID, dayNo, day date, update time, mode,
\* counters and, when there is one, the device signature
generateFiscalDayServerSignature(deviceID, dayNo, dayDate, updated, mode, counters, deviceSignature) ==
  LET hash == <<"sha256", <<deviceID, dayNo, dayDate, updated, mode, counters, deviceSignature>>>>
  IN [Hash |-> hash, Signature |-> SignData(hash)]

----------------------------------------------------------------------------
(* Requests, in-memory copies and responses *)

\* models.Receipt as bound from the request body and filled in by SubmitReceipt
NoBody ==
  [ID |-> 0, ReceiptID |-> 0, DeviceID |-> 0, FiscalDayID |-> 0,
   ReceiptType |-> ReceiptTypeFiscalInvoice, ReceiptCurrency |-> "NULL",
   ReceiptCounter |-> 0, ReceiptGlobalNo |-> 0, ReceiptTotal |-> 0,
   ReceiptLinesTaxInclusive |-> TRUE, HasCreditDebitNote |-> FALSE,
   CreditDebitNote |-> NoReference, ReceiptNotes |-> "NULL",
   ReceiptLines |-> <<>>, ReceiptTaxes |-> <<>>, ReceiptPayments |-> <<>>,
   ReceiptDeviceSignature |-> "NULL", ReceiptServerSignature |-> NoSignature,
   ReceiptHash |-> <<>>, ValidationColor |-> NoColor, ValidationErrors |-> <<>>,
   ServerDate |-> 0]

\* a well-formed fiscal invoice: one line, one tax row, one cash payment
Body(deviceID, counter, globalNo, currency) ==
  [NoBody EXCEPT
     !.DeviceID = deviceID,
     !.ReceiptCurrency = currency,
     !.ReceiptCounter = counter,
     !.ReceiptGlobalNo = globalNo,
     !.ReceiptTotal = ReceiptTotalCents,
     !.ReceiptLines = <<[ReceiptLineTotal |-> ReceiptTotalCents]>>,
     !.ReceiptTaxes = <<[TaxID |-> TaxID, TaxCode |-> NoTaxCode, TaxPercent |-> TaxPercent,
                         TaxAmount |-> TaxAmountCents,
                         SalesAmountWithTax |-> ReceiptTotalCents]>>,
     !.ReceiptPayments = <<[MoneyTypeCode |-> MoneyTypeCash,
                            PaymentAmount |-> ReceiptTotalCents]>>,
     !.ReceiptDeviceSignature = "deviceSig"]

\* creditDebitNote naming a receipt by receiptID, or by deviceID,
\* receiptGlobalNo and fiscalDayNo
ReferenceByID(receiptID) == [NoReference EXCEPT !.ReceiptID = receiptID]

ReferenceByNo(deviceID, globalNo, fiscalDayNo) ==
  [NoReference EXCEPT !.DeviceID = deviceID, !.ReceiptGlobalNo = globalNo,
                      !.FiscalDayNo = fiscalDayNo]

\* a well-formed debit note in USD.  Its creditDebitNote names the debited
\* invoice by deviceID, receiptGlobalNo and fiscalDayNo and carries no
\* receiptID, so SubmitReceipt does not call ValidateCreditDebitNote for it
DebitNoteBody(deviceID, counter, globalNo) ==
  [Body(deviceID, counter, globalNo, "USD") EXCEPT
     !.ReceiptType = ReceiptTypeDebitNote,
     !.HasCreditDebitNote = TRUE,
     !.CreditDebitNote = ReferenceByNo(deviceID, 1, 1),
     !.ReceiptNotes = "note"]

\* a well-formed credit or debit note in USD over factor times the invoice
\* amounts (a credit note's are negative), with its note text and reference
NoteBody(deviceID, receiptType, counter, factor, reference) ==
  [Body(deviceID, counter, counter, "USD") EXCEPT
     !.ReceiptType = receiptType,
     !.ReceiptTotal = factor * ReceiptTotalCents,
     !.ReceiptLines = <<[ReceiptLineTotal |-> factor * ReceiptTotalCents]>>,
     !.ReceiptTaxes = <<[TaxID |-> TaxID, TaxCode |-> NoTaxCode, TaxPercent |-> TaxPercent,
                         TaxAmount |-> factor * TaxAmountCents,
                         SalesAmountWithTax |-> factor * ReceiptTotalCents]>>,
     !.ReceiptPayments = <<[MoneyTypeCode |-> MoneyTypeCash,
                            PaymentAmount |-> factor * ReceiptTotalCents]>>,
     !.HasCreditDebitNote = TRUE,
     !.CreditDebitNote = reference,
     !.ReceiptNotes = "note"]

\* fault = n: the n-th write call of the request meets a database failure
NoReq ==
  [DeviceID |-> 0, Receipt |-> NoBody, FiscalDayDeviceSignature |-> "NULL",
   FiscalDayCounters |-> <<>>, fault |-> 0]

NoRes ==
  [status |-> "none", errorCode |-> "", ReceiptID |-> 0, ServerDate |-> 0,
   ReceiptServerSignature |-> NoSignature, FiscalDayNo |-> 0,
   FiscalDayServerSignature |-> NoSignature, FiscalDayCounters |-> <<>>,
   FiscalDayDocumentQuantities |-> {}, FiscalDayStatus |-> "",
   FiscalDayReconciliationMode |-> "NULL", FiscalDayClosed |-> 0,
   LastReceiptGlobalNo |-> 0]

\* pc: the repository call the request makes next; wrote: the writes it has
\* committed so far; the other fields are the handler's local variables
IdleSlot ==
  [pc |-> "idle", kind |-> "none", t |-> 0, req |-> NoReq, receipt |-> NoBody,
   fiscalDay |-> NoDay, previousReceipt |-> NoReceipt, nextDayNo |-> 0,
   originalReceipt |-> NoOriginal, creditNotes |-> {}, debitNotes |-> {},
   reconciliationMode |-> NoMode, counters |-> <<>>, serverSignature |-> NoSignature,
   wrote |-> {}, res |-> NoRes]

\* the handler returns: its locals go out of scope, the response stays
Return(s, res) ==
  [IdleSlot EXCEPT !.pc = "done", !.kind = s.kind, !.t = s.t, !.req = s.req,
                   !.wrote = s.wrote, !.res = res]

\* models.NewAPIError(422, ..., code)
APIError(s, code) == Return(s, [NoRes EXCEPT !.status = "error", !.errorCode = code])

\* a plain error: answered 500 without errorCode
Fault(s) == Return(s, [NoRes EXCEPT !.status = "fault"])

\* a nil pointer dereference, recovered by gin.Recovery as 500
Panic(s) == Return(s, [NoRes EXCEPT !.status = "panic"])

Step(d, a, s) == [db |-> d, audit |-> a, slot |-> s]

----------------------------------------------------------------------------
(* FiscalDayService.OpenFiscalDay, one operator per repository call *)

\* OpenFiscalDay with the FISC01 guard alone: a current day that is neither
\* Opened nor Closed does not stop the open
OpenFiscalDayLoadOnlyOpened(d, a, s) ==
  LET device     == devices[s.req.DeviceID]
      currentDay == GetCurrent(d, s.req.DeviceID)
  IN IF device.operating_mode = DeviceOperatingModeOffline THEN Step(d, a, APIError(s, "DEV01"))
     ELSE IF currentDay # NoDay /\ currentDay.status = FiscalDayStatusOpened
       THEN Step(d, a, APIError(s, "FISC01"))
     ELSE Step(d, a, [s EXCEPT !.pc = "o_create",
                               !.nextDayNo = IF currentDay # NoDay
                                             THEN currentDay.fiscal_day_no + 1 ELSE 1])

\* GetByDeviceID, GetCurrent and the FISC01 / FISC02 guards
OpenFiscalDayLoad(d, a, s) ==
  LET device     == devices[s.req.DeviceID]
      currentDay == GetCurrent(d, s.req.DeviceID)
  IN IF device.operating_mode = DeviceOperatingModeOffline THEN Step(d, a, APIError(s, "DEV01"))
     ELSE IF currentDay # NoDay /\ currentDay.status = FiscalDayStatusOpened
       THEN Step(d, a, APIError(s, "FISC01"))
     ELSE IF currentDay # NoDay /\ currentDay.status # FiscalDayStatusClosed
       THEN Step(d, a, APIError(s, "FISC02"))
     ELSE Step(d, a, [s EXCEPT !.pc = "o_create",
                               !.nextDayNo = IF currentDay # NoDay
                                             THEN currentDay.fiscal_day_no + 1 ELSE 1])

\* fiscalDayRepo.Create and the response
OpenFiscalDayCreate(d, a, s) ==
  LET fiscalDay == [NoDay EXCEPT !.device_id = s.req.DeviceID,
                                 !.fiscal_day_no = s.nextDayNo,
                                 !.fiscal_day_opened = s.t,
                                 !.status = FiscalDayStatusOpened]
      c == FiscalDayCreate(d, fiscalDay, s.req.fault = 1)
  IN IF c.err THEN Step(c.db, a, Fault(s))
     ELSE Step(c.db, a,
               Return([s EXCEPT !.wrote = @ \cup {"day"}],
                      [NoRes EXCEPT !.status = "ok", !.FiscalDayNo = s.nextDayNo]))

----------------------------------------------------------------------------
(* FiscalDayService.CloseFiscalDay *)

\* CloseFiscalDay without its fiscal day status guard: a day of any status,
\* a Closed one too, goes on to be closed
CloseFiscalDayLoadAnyStatus(d, a, s) ==
  LET device    == devices[s.req.DeviceID]
      fiscalDay == GetCurrent(d, s.req.DeviceID)
  IN IF device.operating_mode = DeviceOperatingModeOffline THEN Step(d, a, APIError(s, "DEV01"))
     ELSE IF fiscalDay = NoDay THEN Step(d, a, APIError(s, "FISC03"))
     ELSE Step(d, a, [s EXCEPT !.pc = "c_errors", !.fiscalDay = fiscalDay])

\* GetByDeviceID, GetCurrent and the FISC03 guards
CloseFiscalDayLoad(d, a, s) ==
  LET device    == devices[s.req.DeviceID]
      fiscalDay == GetCurrent(d, s.req.DeviceID)
  IN IF device.operating_mode = DeviceOperatingModeOffline THEN Step(d, a, APIError(s, "DEV01"))
     ELSE IF fiscalDay = NoDay THEN Step(d, a, APIError(s, "FISC03"))
     ELSE IF fiscalDay.status \notin {FiscalDayStatusOpened, FiscalDayStatusCloseFailed}
       THEN Step(d, a, APIError(s, "FISC03"))
     ELSE Step(d, a, [s EXCEPT !.pc = "c_errors", !.fiscalDay = fiscalDay])

\* GetReceiptsWithValidationErrors and the blocking-errors guard
CloseFiscalDayCheckErrors(d, a, s) ==
  LET receiptsWithErrors == GetReceiptsWithValidationErrors(d, s.fiscalDay.id)
      hasBlockingErrors  == \E r \in receiptsWithErrors :
                              r.validation_color \in {ValidationColorRed, ValidationColorGrey}
  IN IF hasBlockingErrors THEN Step(d, a, APIError(s, "FISC04"))
     ELSE Step(d, a, [s EXCEPT !.pc = "c_counters"])

\* CloseFiscalDay that records a refused close on the day: the copy of the
\* day becomes CloseFailed and is written back before FISC04 is returned
CloseFiscalDayCountersMarkFailed(d, a, s) ==
  LET manual == Len(s.req.FiscalDayCounters) > 0
      valid  == ValidateCounters(d, s.fiscalDay.id, s.req.FiscalDayCounters)
      failed == FiscalDayUpdate(d, [s.fiscalDay EXCEPT !.status = FiscalDayStatusCloseFailed], FALSE)
  IN IF (manual /\ ~valid) \/ (~manual /\ s.req.FiscalDayDeviceSignature = "NULL")
       THEN Step(failed.db, a, APIError(s, "FISC04"))
     ELSE Step(d, a, [s EXCEPT !.pc = "c_update",
                               !.reconciliationMode =
                                  IF manual THEN FiscalDayReconciliationModeManual
                                  ELSE FiscalDayReconciliationModeAuto,
                               !.counters = IF manual THEN s.req.FiscalDayCounters
                                            ELSE GetCounters(d, s.fiscalDay.id),
                               !.serverSignature =
                                  generateFiscalDayServerSignature(
                                    s.req.DeviceID, s.fiscalDay.fiscal_day_no,
                                    s.fiscalDay.fiscal_day_opened, s.t,
                                    IF manual THEN FiscalDayReconciliationModeManual
                                    ELSE FiscalDayReconciliationModeAuto,
                                    IF manual THEN s.req.FiscalDayCounters
                                    ELSE GetCounters(d, s.fiscalDay.id),
                                    s.req.FiscalDayDeviceSignature)])

\* reconciliation mode, ValidateCounters or GetCounters, the device-signature
\* presence check and the server signature
CloseFiscalDayCounters(d, a, s) ==
  LET reconciliationMode == IF Len(s.req.FiscalDayCounters) > 0
                            THEN FiscalDayReconciliationModeManual
                            ELSE FiscalDayReconciliationModeAuto
      manual   == reconciliationMode = FiscalDayReconciliationModeManual
      valid    == ValidateCounters(d, s.fiscalDay.id, s.req.FiscalDayCounters)
      counters == IF manual THEN s.req.FiscalDayCounters ELSE GetCounters(d, s.fiscalDay.id)
      closedAt == s.t
      serverSignature ==
        generateFiscalDayServerSignature(s.req.DeviceID, s.fiscalDay.fiscal_day_no,
                                         s.fiscalDay.fiscal_day_opened, closedAt,
                                         reconciliationMode, counters,
                                         s.req.FiscalDayDeviceSignature)
  IN IF manual /\ ~valid THEN Step(d, a, APIError(s, "FISC04"))
     ELSE IF ~manual /\ s.req.FiscalDayDeviceSignature = "NULL"
       THEN Step(d, a, APIError(s, "FISC04"))
     ELSE Step(d, a, [s EXCEPT !.pc = "c_update",
                               !.reconciliationMode = reconciliationMode,
                               !.counters = counters,
                               !.serverSignature = serverSignature])

\* the caller's copy of the day becomes Closed and is written back
CloseFiscalDayUpdate(d, a, s) ==
  LET fiscalDay == [s.fiscalDay EXCEPT
                      !.fiscal_day_closed = s.t,
                      !.status = FiscalDayStatusClosed,
                      !.reconciliation_mode = s.reconciliationMode,
                      !.fiscal_day_device_signature = s.req.FiscalDayDeviceSignature,
                      !.fiscal_day_server_signature = s.serverSignature]
      u == FiscalDayUpdate(d, fiscalDay, s.req.fault = 1)
  IN IF u.err THEN Step(u.db, a, Fault(s))
     ELSE Step(u.db, a, [s EXCEPT !.pc = "c_save", !.fiscalDay = fiscalDay,
                                  !.wrote = @ \cup {"day"}])

\* CreateCounters; a failure is only logged
CloseFiscalDaySaveCounters(d, a, s) ==
  LET c == CreateCounters(d, s.fiscalDay.id, s.counters, s.req.fault = 2)
  IN Step(c.db, a, [s EXCEPT !.pc = "c_quantities",
                             !.wrote = IF c.err THEN @ ELSE @ \cup {"counters"}])

\* GetFiscalDayDocumentQuantities and the response
CloseFiscalDayRespond(d, a, s) ==
  Step(d, a, Return(s, [NoRes EXCEPT
                          !.status = "ok",
                          !.FiscalDayServerSignature = s.serverSignature,
                          !.FiscalDayCounters = s.counters,
                          !.FiscalDayDocumentQuantities =
                             GetFiscalDayDocumentQuantities(d, s.fiscalDay.id)]))

----------------------------------------------------------------------------
(* FiscalDayService.GetFiscalDayStatus *)

\* FiscalDayStatus.String
FiscalDayStatusString(status) ==
  <<"FiscalDayClosed", "FiscalDayOpened", "FiscalDayCloseInitiated",
    "FiscalDayCloseFailed">>[status + 1]

\* FiscalDayReconciliationMode.String
FiscalDayReconciliationModeString(m) == <<"Auto", "Manual">>[m + 1]

\* GetCurrent and the response.  fiscalDay.ReconciliationMode is a pointer and
\* String has a value receiver: the call dereferences it, nil or not
GetFiscalDayStatus(d, a, s) ==
  LET fiscalDay == GetCurrent(d, s.req.DeviceID)
  IN IF fiscalDay = NoDay
       THEN Step(d, a, Return(s, [NoRes EXCEPT
                                    !.status = "ok",
                                    !.FiscalDayStatus = FiscalDayStatusString(FiscalDayStatusClosed)]))
     ELSE IF fiscalDay.reconciliation_mode = NoMode THEN Step(d, a, Panic(s))
     ELSE Step(d, a, Return(s, [NoRes EXCEPT
            !.status = "ok",
            !.FiscalDayStatus = FiscalDayStatusString(fiscalDay.status),
            !.FiscalDayNo = fiscalDay.fiscal_day_no,
            !.FiscalDayReconciliationMode =
               FiscalDayReconciliationModeString(fiscalDay.reconciliation_mode),
            !.FiscalDayServerSignature = fiscalDay.fiscal_day_server_signature,
            !.FiscalDayClosed = fiscalDay.fiscal_day_closed,
            !.LastReceiptGlobalNo = fiscalDay.last_receipt_global_no]))

----------------------------------------------------------------------------
(* ReceiptService.SubmitReceipt *)

\* SubmitReceipt without its fiscal day status guard: a day of any status
\* takes the receipt
SubmitReceiptLoadAnyStatus(d, a, s) ==
  LET device    == devices[s.req.DeviceID]
      fiscalDay == GetCurrent(d, s.req.DeviceID)
  IN IF device.operating_mode = DeviceOperatingModeOffline THEN Step(d, a, APIError(s, "DEV01"))
     ELSE IF fiscalDay = NoDay THEN Step(d, a, APIError(s, "RCPT01"))
     ELSE Step(d, a, [s EXCEPT !.pc = "s_dedup", !.fiscalDay = fiscalDay,
                               !.receipt = [s.req.Receipt EXCEPT !.FiscalDayID = fiscalDay.id]])

\* GetByDeviceID, GetCurrent and the RCPT01 guards
SubmitReceiptLoad(d, a, s) ==
  LET device    == devices[s.req.DeviceID]
      fiscalDay == GetCurrent(d, s.req.DeviceID)
  IN IF device.operating_mode = DeviceOperatingModeOffline THEN Step(d, a, APIError(s, "DEV01"))
     ELSE IF fiscalDay = NoDay THEN Step(d, a, APIError(s, "RCPT01"))
     ELSE IF fiscalDay.status \notin {FiscalDayStatusOpened, FiscalDayStatusCloseFailed}
       THEN Step(d, a, APIError(s, "RCPT01"))
     ELSE Step(d, a, [s EXCEPT !.pc = "s_dedup", !.fiscalDay = fiscalDay,
                               !.receipt = [s.req.Receipt EXCEPT !.FiscalDayID = fiscalDay.id]])

\* the credit/debit note rules run for a credit or debit note whose
\* creditDebitNote is present and carries a receiptID
NeedsNoteValidation(receipt) ==
  /\ receipt.ReceiptType \in {ReceiptTypeCreditNote, ReceiptTypeDebitNote}
  /\ receipt.HasCreditDebitNote
  /\ receipt.CreditDebitNote.ReceiptID # 0

\* the repository call that follows the previous-receipt lookup
AfterPrevious(receipt) == IF NeedsNoteValidation(receipt) THEN "s_original" ELSE "s_create"

\* GetByGlobalNo; an existing row is answered from its stored server_date and
\* receipt_server_signature, whose nil pointers are dereferenced
SubmitReceiptDedup(d, a, s) ==
  LET existing == GetByGlobalNo(d, s.req.DeviceID, s.receipt.ReceiptGlobalNo)
  IN IF existing # NoReceipt
     THEN IF existing.server_date = 0 \/ existing.receipt_server_signature = NoSignature
          THEN Step(d, a, Panic(s))
          ELSE Step(d, a, Return(s, [NoRes EXCEPT
                                       !.status = "ok",
                                       !.ReceiptID = existing.receipt_id,
                                       !.ServerDate = existing.server_date,
                                       !.ReceiptServerSignature = existing.receipt_server_signature]))
     ELSE Step(d, a, [s EXCEPT !.pc = IF s.receipt.ReceiptCounter > 1
                                      THEN "s_previous" ELSE AfterPrevious(s.receipt)])

\* GetPreviousReceipt, called only when receiptCounter > 1
SubmitReceiptPrevious(d, a, s) ==
  Step(d, a, [s EXCEPT !.pc = AfterPrevious(s.receipt),
                       !.previousReceipt =
                          GetPreviousReceipt(d, s.req.DeviceID, s.fiscalDay.id,
                                             s.receipt.ReceiptGlobalNo)])

\* GetByReceiptID of the credited or debited receipt
SubmitReceiptOriginal(d, a, s) ==
  Step(d, a, [s EXCEPT !.pc = "s_notes",
                       !.originalReceipt =
                          GetByReceiptID(d, s.receipt.CreditDebitNote.ReceiptID)])

\* GetCreditDebitNotes of the credited or debited receipt
SubmitReceiptNotes(d, a, s) ==
  LET notes == GetCreditDebitNotes(d, s.receipt.CreditDebitNote.ReceiptID)
  IN Step(d, a, [s EXCEPT !.pc = "s_create",
                          !.creditNotes = notes.creditNotes,
                          !.debitNotes = notes.debitNotes])

\* ValidateReceipt, and for a note with a receiptID ValidateCreditDebitNote
\* merged into its result
Validate(s) ==
  IF NeedsNoteValidation(s.receipt)
    THEN mergeValidation(ValidateReceipt(s.receipt, s.previousReceipt),
                         ValidateCreditDebitNote(s.receipt, s.originalReceipt,
                                                 s.creditNotes, s.debitNotes))
    ELSE ValidateReceipt(s.receipt, s.previousReceipt)

\* validation, hash, server signature (over the receipt as it is before the
\* insert assigns ReceiptID) and CreateWithLines
SubmitReceiptCreate(d, a, s) ==
  LET previousHash == IF s.previousReceipt # NoReceipt
                      THEN s.previousReceipt.receipt_hash ELSE <<>>
      serverDate   == s.t
  IN Once(Validate(s), LAMBDA validationResult :
     Once([s.receipt EXCEPT !.ReceiptHash = GenerateReceiptHash(s.receipt, previousHash),
                            !.ValidationColor = validationResult.Color,
                            !.ValidationErrors = validationResult.Errors,
                            !.ServerDate = serverDate], LAMBDA r1 :
     Once([r1 EXCEPT !.ReceiptServerSignature = generateServerSignature(r1, serverDate)], LAMBDA r2 :
     Once(CreateWithLines(d, r2, s.req.fault = 1), LAMBDA c :
     Once([r2 EXCEPT !.ID = c.ID, !.ReceiptID = c.ReceiptID], LAMBDA r3 :
       IF c.err THEN Step(c.db, a, Fault(s))
       ELSE Step(c.db, a \cup {r3},
                 [s EXCEPT !.pc = "s_update", !.receipt = r3, !.wrote = @ \cup {"receipt"}]))))))

\* the cursor is set on the caller's copy of the day and the whole copy is
\* written back; a failure is only logged
SubmitReceiptUpdateDay(d, a, s) ==
  LET fiscalDay == [s.fiscalDay EXCEPT !.last_receipt_global_no = s.receipt.ReceiptGlobalNo]
      u == FiscalDayUpdate(d, fiscalDay, s.req.fault = 2)
  IN Step(u.db, a,
          Return([s EXCEPT !.wrote = IF u.err THEN @ ELSE @ \cup {"cursor"}],
                 [NoRes EXCEPT !.status = "ok",
                               !.ReceiptID = s.receipt.ReceiptID,
                               !.ServerDate = s.receipt.ServerDate,
                               !.ReceiptServerSignature = s.receipt.ReceiptServerSignature]))

----------------------------------------------------------------------------
(* Requests the devices send *)

\* the counters a device reports for n clean USD invoices, SaleByTax off by
\* delta cents
DeviceCounters(n, delta) ==
  <<[FiscalCounterType |-> 0, FiscalCounterCurrency |-> "USD", FiscalCounterTaxID |-> TaxID,
     FiscalCounterTaxPercent |-> TaxPercent, FiscalCounterMoneyType |-> NoMoneyType,
     FiscalCounterValue |-> n * ReceiptTotalCents + delta],
    [FiscalCounterType |-> 1, FiscalCounterCurrency |-> "USD", FiscalCounterTaxID |-> TaxID,
     FiscalCounterTaxPercent |-> TaxPercent, FiscalCounterMoneyType |-> NoMoneyType,
     FiscalCounterValue |-> n * TaxAmountCents],
    [FiscalCounterType |-> 6, FiscalCounterCurrency |-> "USD", FiscalCounterTaxID |-> 0,
     FiscalCounterTaxPercent |-> NoPercent, FiscalCounterMoneyType |-> MoneyTypeCash,
     FiscalCounterValue |-> n * ReceiptTotalCents]>>

\* the same list with the SaleByTax counter sent twice, first off by delta
\* cents and then exact
RepeatedCounters(n, delta) == <<DeviceCounters(n, delta)[1]>> \o DeviceCounters(n, 0)

\* the counters a device reports for n clean USD debit notes: DebitNoteByTax,
\* DebitNoteTaxByTax and BalanceByMoneyType
DebitNoteCounters(n) ==
  <<[FiscalCounterType |-> 4, FiscalCounterCurrency |-> "USD", FiscalCounterTaxID |-> TaxID,
     FiscalCounterTaxPercent |-> TaxPercent, FiscalCounterMoneyType |-> NoMoneyType,
     FiscalCounterValue |-> n * ReceiptTotalCents],
    [FiscalCounterType |-> 5, FiscalCounterCurrency |-> "USD", FiscalCounterTaxID |-> TaxID,
     FiscalCounterTaxPercent |-> TaxPercent, FiscalCounterMoneyType |-> NoMoneyType,
     FiscalCounterValue |-> n * TaxAmountCents],
    [FiscalCounterType |-> 6, FiscalCounterCurrency |-> "USD", FiscalCounterTaxID |-> 0,
     FiscalCounterTaxPercent |-> NoPercent, FiscalCounterMoneyType |-> MoneyTypeCash,
     FiscalCounterValue |-> n * ReceiptTotalCents]>>

\* fiscalDayDeviceSignature of a close request: absent, the device's signature
\* of the day, or bytes that are not its signature of the day
DeviceSignatures == {"NULL", "daySig", "badSig"}

Faults(n) == IF faultsLeft > 0 THEN 0..n ELSE {0}

\* the devices whose requests arrive
Senders == IF run.two THEN Devices \cup SecondDevices ELSE Devices

OpenRequests ==
  {[NoReq EXCEPT !.DeviceID = dev, !.fault = f] : dev \in Senders, f \in Faults(1)}

CloseRequests ==
  {[NoReq EXCEPT !.DeviceID = dev, !.FiscalDayDeviceSignature = sg, !.fault = f]
     : dev \in Senders, sg \in DeviceSignatures, f \in Faults(2)}
  \cup
  {[NoReq EXCEPT !.DeviceID = dev, !.FiscalDayDeviceSignature = "daySig",
                 !.FiscalDayCounters = cs, !.fault = f]
     : dev \in Senders, f \in Faults(2),
       cs \in {DeviceCounters(1, 0), DeviceCounters(1, 2), RepeatedCounters(1, 2)}
               \cup (IF run.notes THEN {DebitNoteCounters(1)} ELSE {})}

\* GET /status carries the authenticated deviceID alone
StatusRequests == {[NoReq EXCEPT !.DeviceID = dev] : dev \in Senders}

\* references to the first receipt and day of a device, and to a receiptID and
\* a fiscalDayNo that no insert assigns within the behaviour
References(deviceID) ==
  {ReferenceByID(1), ReferenceByID(run.limit + 1),
   ReferenceByNo(deviceID, 1, 1), ReferenceByNo(deviceID, 1, run.limit + 1)}

\* credit and debit notes: everywhere a credit note of the invoice amount
\* against receiptID 1; where run.credit, credit notes of the invoice amount
\* with every reference, and credit notes of twice the invoice amount and
\* debit notes of the invoice amount with a receiptID
NoteRequests ==
  {[NoReq EXCEPT !.DeviceID = dev,
                 !.Receipt = NoteBody(dev, ReceiptTypeCreditNote, 2, -1, ReferenceByID(1))]
     : dev \in Senders}
  \cup
  {[NoReq EXCEPT !.DeviceID = dev,
                 !.Receipt = NoteBody(dev, ReceiptTypeCreditNote, c, -1, ref)]
     : dev \in IF run.credit THEN Devices ELSE {},
       c \in 2..(MaxCounter + 1),
       ref \in UNION {References(dev2) : dev2 \in Devices}}
  \cup
  {[NoReq EXCEPT !.DeviceID = dev, !.Receipt = NoteBody(dev, n[1], c, n[2], ReferenceByID(id))]
     : dev \in IF run.credit THEN Devices ELSE {},
       c \in 2..(MaxCounter + 1),
       n \in {<<ReceiptTypeCreditNote, -2>>, <<ReceiptTypeDebitNote, 1>>},
       id \in {1, run.limit + 1}}

\* the receipt body repeats the authenticated deviceID
SubmitRequests ==
  {[NoReq EXCEPT !.DeviceID = dev, !.Receipt = Body(dev, c, g, cur), !.fault = f]
     : dev \in IF run.credit THEN {} ELSE Senders, c \in 1..MaxCounter, g \in 1..MaxGlobalNo,
       cur \in Currencies, f \in Faults(2)}
  \cup
  {[NoReq EXCEPT !.DeviceID = dev, !.Receipt = DebitNoteBody(dev, c, g)]
     : dev \in IF run.notes THEN Devices ELSE {}, c \in 1..MaxCounter, g \in 1..MaxGlobalNo}
  \cup NoteRequests

----------------------------------------------------------------------------
(* Serial semantics: the steps of one request with nothing in between *)

FirstStep(kind) ==
  CASE kind = "open" -> "o_load" [] kind = "close" -> "c_load" [] kind = "submit" -> "s_load"
    [] kind = "status" -> "g_load"

Arrive(kind, req, t) ==
  [IdleSlot EXCEPT !.pc = FirstStep(kind), !.kind = kind, !.t = t, !.req = req]

StepOf(d, a, s) ==
  CASE s.pc = "o_load"       -> OpenFiscalDayLoad(d, a, s)
    [] s.pc = "o_create"     -> OpenFiscalDayCreate(d, a, s)
    [] s.pc = "c_load"       -> CloseFiscalDayLoad(d, a, s)
    [] s.pc = "c_errors"     -> CloseFiscalDayCheckErrors(d, a, s)
    [] s.pc = "c_counters"   -> CloseFiscalDayCounters(d, a, s)
    [] s.pc = "c_update"     -> CloseFiscalDayUpdate(d, a, s)
    [] s.pc = "c_save"       -> CloseFiscalDaySaveCounters(d, a, s)
    [] s.pc = "c_quantities" -> CloseFiscalDayRespond(d, a, s)
    [] s.pc = "g_load"       -> GetFiscalDayStatus(d, a, s)
    [] s.pc = "s_load"       -> SubmitReceiptLoad(d, a, s)
    [] s.pc = "s_dedup"      -> SubmitReceiptDedup(d, a, s)
    [] s.pc = "s_previous"   -> SubmitReceiptPrevious(d, a, s)
    [] s.pc = "s_original"   -> SubmitReceiptOriginal(d, a, s)
    [] s.pc = "s_notes"      -> SubmitReceiptNotes(d, a, s)
    [] s.pc = "s_create"     -> SubmitReceiptCreate(d, a, s)
    [] s.pc = "s_update"     -> SubmitReceiptUpdateDay(d, a, s)

RECURSIVE RunToEnd(_, _, _)
RunToEnd(d, a, s) ==
  IF s.pc = "done" THEN Step(d, a, s)
  ELSE Once(StepOf(d, a, s), LAMBDA r : RunToEnd(r.db, r.audit, r.slot))

\* the requests of log, run one after another in the order perm, from the
\* empty database: the final database, and whether every request returned
\* what the log says it returned
RECURSIVE SerialRun(_, _, _, _)
SerialRun(log, perm, k, d) ==
  IF k > Len(log) THEN [same |-> TRUE, db |-> d]
  ELSE LET e == log[perm[k]]
           r == RunToEnd(d, {}, Arrive(e.kind, e.req, e.t))
       IN IF r.slot.res # e.res THEN [same |-> FALSE, db |-> r.db]
          ELSE SerialRun(log, perm, k + 1, r.db)

----------------------------------------------------------------------------
(* Actions *)

InProgress(i) == slots[i].pc \notin {"idle", "done"}

\* a request is served by the lowest free slot
FreeSlot(i) == ~InProgress(i) /\ \A j \in 1..(i - 1) : InProgress(j)

\* a returned response stays in its slot until the next request arrives
Delivered(sl) == [j \in 1..NumSlots |-> IF sl[j].pc = "done" THEN IdleSlot ELSE sl[j]]

Commit(i, r, sl) ==
  /\ UNCHANGED <<calc, pki>>
  /\ db' = r.db
  /\ audit' = r.audit
  /\ slots' = [sl EXCEPT ![i] = r.slot]
  /\ run' = IF run.record /\ r.slot.pc = "done"
            THEN [run EXCEPT !.log = Append(@, [kind |-> r.slot.kind, t |-> r.slot.t,
                                                req |-> r.slot.req, res |-> r.slot.res])]
            ELSE run

----------------------------------------------------------------------------
(* Device certificates: RegisterDevice, IssueCertificate and the             *)
(* certificate middleware. Text is a sequence of one-character strings,      *)
(* a certificate is the fields its DER encoding carries                      *)

\* devices the administrator has provisioned: 1003 is blocked
ProvisionedDevices == {1001, 1002, 1003}

\* the devices columns the registration reads
DeviceTable ==
  [d \in ProvisionedDevices |->
     [device_id |-> d,
      taxpayer_id |-> 1,
      device_serial_no |-> <<"S", IF d = 1001 THEN "1" ELSE IF d = 1002 THEN "2" ELSE "3">>,
      activation_key |-> "KEY00001",
      status |-> IF d = 1003 THEN "Blocked" ELSE "Active"]]

\* the taxpayers rows
TaxpayerTable == [t \in {1} |-> [id |-> t, status |-> "Active"]]

NoThumbprint == <<>>

NoCertificate == [SerialNumber |-> 0, CommonName |-> <<>>, PublicKey |-> "NULL", Issuer |-> "NULL"]

\* the certificate columns of a devices row before the first registration
NoCertificateColumns == [certificate |-> NoCertificate, certificate_thumbprint |-> NoThumbprint]

\* the gin context of a request: the route's path, the deviceID the
\* middleware set, whether the handler ran, the response status, and the
\* client certificate that came with the request
NoContext == [path |-> "", deviceID |-> 0, exists |-> FALSE, next |-> FALSE, status |-> 0,
              errorCode |-> "", presented |-> NoCertificate]

\* after provisioning: no device holds a certificate, no request was served
NoPki ==
  [devices |-> [d \in ProvisionedDevices |-> NoCertificateColumns],
   certificate_history |-> {},
   issued |-> 0,
   context |-> NoContext]

DigitChars == <<"0", "1", "2", "3", "4", "5", "6", "7", "8", "9">>

IsDigit(c) == \E k \in 1..10 : DigitChars[k] = c

DigitValue(c) == CHOOSE n \in 0..9 : DigitChars[n + 1] = c

RECURSIVE FormatInt(_)
\* %d of a non-negative integer
FormatInt(n) ==
  IF n < 10 THEN <<DigitChars[n + 1]>>
  ELSE Append(FormatInt(n \div 10), DigitChars[(n % 10) + 1])

RECURSIVE PadZero(_, _)
\* %0<width>d: zeros on the left up to the width
PadZero(text, width) == IF Len(text) >= width THEN text ELSE PadZero(<<"0">> \o text, width)

\* fmt.Sprintf("ZIMRA-%s-%010d", deviceSerialNo, deviceID)
ExpectedCN(deviceSerialNo, deviceID) ==
  <<"Z", "I", "M", "R", "A", "-">> \o deviceSerialNo \o <<"-">> \o PadZero(FormatInt(deviceID), 10)

RECURSIVE ParseDigits(_)
ParseDigits(text) ==
  IF text = <<>> THEN 0
  ELSE 10 * ParseDigits(SubSeq(text, 1, Len(text) - 1)) + DigitValue(text[Len(text)])

\* strconv.Atoi: an optional sign, then digits and nothing else
Atoi(text) ==
  LET signed == Len(text) > 0 /\ text[1] \in {"+", "-"}
      digits == IF signed THEN Tail(text) ELSE text
  IN IF digits = <<>> \/ \E k \in DOMAIN digits : ~IsDigit(digits[k])
     THEN [err |-> TRUE, n |-> 0]
     ELSE [err |-> FALSE,
           n |-> IF signed /\ text[1] = "-" THEN 0 - ParseDigits(digits) ELSE ParseDigits(digits)]

\* fmt.Scanf(cn, "ZIMRA-%*s-%d", &deviceID): cn is taken as the format and
\* the text is read from standard input; the first operand is a string and
\* not a pointer, so a verb in cn fails on it and a cn without verbs leaves
\* operands over: an error whatever cn and the input are, deviceID untouched
Scanf(format) == [err |-> TRUE, deviceID |-> 0]

\* the deviceID the middleware takes from a certificate
extractDeviceIDFromCert(cert) ==
  LET cn == cert.CommonName
  IN IF ~Atoi(cn).err THEN [err |-> FALSE, deviceID |-> Atoi(cn).n]
     ELSE IF ~Scanf(cn).err THEN [err |-> FALSE, deviceID |-> Scanf(cn).deviceID]
     ELSE [err |-> FALSE, deviceID |-> 1001]

\* sha1.Sum(certDER): equal thumbprints for equal certificates only
sha1(certDER) == <<"sha1", certDER>>

\* strings.EqualFold on activation keys
ToUpper(text) == IF text = "key00001" THEN "KEY00001" ELSE text

EqualFold(a, b) == ToUpper(a) = ToUpper(b)

NoCSR == [decodes |-> FALSE, CommonName |-> <<>>, PublicKey |-> "NULL", signed |-> FALSE]

\* CryptoService.IssueCertificate: the CSR decodes, its signature verifies
\* and its CN is the device's; the certificate carries the serial number
\* rand.Int drew, the CSR's subject and public key, and the CA's signature
IssueCertificate(csr, deviceID, deviceSerialNo, serialNumber) ==
  IF ~csr.decodes THEN [err |-> TRUE, certPEM |-> NoCertificate, thumbprint |-> NoThumbprint]
  ELSE IF ~csr.signed THEN [err |-> TRUE, certPEM |-> NoCertificate, thumbprint |-> NoThumbprint]
  ELSE IF csr.CommonName # ExpectedCN(deviceSerialNo, deviceID)
  THEN [err |-> TRUE, certPEM |-> NoCertificate, thumbprint |-> NoThumbprint]
  ELSE LET certDER == [SerialNumber |-> serialNumber, CommonName |-> csr.CommonName,
                       PublicKey |-> csr.PublicKey, Issuer |-> "CA"]
       IN [err |-> FALSE, certPEM |-> certDER, thumbprint |-> sha1(certDER)]

\* deviceRepository.GetByDeviceID
GetByDeviceID(deviceID) ==
  IF deviceID \in ProvisionedDevices
  THEN [found |-> TRUE, row |-> DeviceTable[deviceID]]
  ELSE [found |-> FALSE, row |-> DeviceTable[1001]]

\* deviceRepository.IsBlacklisted
IsBlacklisted(modelName, modelVersion) == FALSE

\* UPDATE devices SET certificate, certificate_thumbprint WHERE device_id
\* with the WHERE left out: every row takes the certificate
UpdateCertificateEveryRow(rows, deviceID, cert, thumbprint) ==
  [d \in DOMAIN rows |-> [certificate |-> cert, certificate_thumbprint |-> thumbprint]]

\* deviceRepository.UpdateCertificate
UpdateCertificate(rows, deviceID, cert, thumbprint) ==
  [d \in DOMAIN rows |->
     IF d = deviceID THEN [certificate |-> cert, certificate_thumbprint |-> thumbprint]
     ELSE rows[d]]

\* deviceRepository.SaveCertificateHistory
SaveCertificateHistory(history, deviceID, cert, thumbprint) ==
  history \cup {[device_id |-> deviceID, certificate |-> cert, certificate_thumbprint |-> thumbprint]}

\* the part RegisterDevice and IssueCertificate share: issue, store, record.
\* fault 1 is a database failure of UpdateCertificate, which is returned;
\* fault 2 one of SaveCertificateHistory, which is logged as a warning
IssueAndStore(p, context, csr, deviceID, device, serialNumber, fault) ==
  LET issuedCert == IssueCertificate(csr, deviceID, device.device_serial_no, serialNumber)
  IN IF issuedCert.err
     THEN [p EXCEPT !.context = [context EXCEPT !.status = 422, !.errorCode = "DEV03"]]
     ELSE IF fault = 1
     THEN [p EXCEPT !.context = [context EXCEPT !.status = 500]]
     ELSE IF fault = 2
     THEN [p EXCEPT
             !.devices = UpdateCertificate(@, deviceID, issuedCert.certPEM, issuedCert.thumbprint),
             !.issued = @ + 1,
             !.context = [context EXCEPT !.status = 200]]
     ELSE [p EXCEPT
             !.devices = UpdateCertificate(@, deviceID, issuedCert.certPEM, issuedCert.thumbprint),
             !.certificate_history =
                SaveCertificateHistory(@, deviceID, issuedCert.certPEM, issuedCert.thumbprint),
             !.issued = @ + 1,
             !.context = [context EXCEPT !.status = 200]]

\* DeviceService.RegisterDevice behind DeviceHandler.RegisterDevice
RegisterDevice(p, req, serialNumber) ==
  LET context == [NoContext EXCEPT !.path = "/device/register", !.next = TRUE]
      device  == GetByDeviceID(req.DeviceID)
      failed(code) == [p EXCEPT !.context = [context EXCEPT !.status = 422, !.errorCode = code]]
  IN IF IsBlacklisted(req.modelName, req.modelVersion) THEN failed("DEV04")
     ELSE IF ~device.found THEN failed("DEV01")
     ELSE IF ~EqualFold(device.row.activation_key, req.ActivationKey) THEN failed("DEV02")
     ELSE IF device.row.status # "Active" THEN failed("DEV01")
     ELSE IF TaxpayerTable[device.row.taxpayer_id].status # "Active" THEN failed("DEV05")
     ELSE IssueAndStore(p, context, req.CertificateRequest, req.DeviceID, device.row, serialNumber,
                        req.fault)

\* CertificateAuthMiddleware: the context it hands to the handler, or the 401
CertificateAuthMiddleware(request) ==
  LET abort(cert) == [NoContext EXCEPT !.path = request.path, !.status = 401,
                                       !.presented = cert]
      pass(cert)  == [NoContext EXCEPT !.path = request.path,
                                       !.deviceID = extractDeviceIDFromCert(cert).deviceID,
                                       !.exists = TRUE, !.next = TRUE, !.presented = cert]
  IN IF ~request.TLS \/ Len(request.PeerCertificates) = 0
     THEN IF request.certHeader.present
          THEN IF ~request.certHeader.parses THEN abort(NoCertificate)
               ELSE IF extractDeviceIDFromCert(request.certHeader.cert).err
                    THEN abort(request.certHeader.cert)
                    ELSE pass(request.certHeader.cert)
          ELSE abort(NoCertificate)
     ELSE IF extractDeviceIDFromCert(request.PeerCertificates[1]).err
          THEN abort(request.PeerCertificates[1])
          ELSE pass(request.PeerCertificates[1])

\* DeviceService.IssueCertificate behind the middleware and
\* DeviceHandler.IssueCertificate, which takes the deviceID from the context
RenewCertificate(p, request, serialNumber) ==
  LET context == CertificateAuthMiddleware(request)
      device  == GetByDeviceID(context.deviceID)
      failed(code) == [p EXCEPT !.context = [context EXCEPT !.status = 422, !.errorCode = code]]
  IN IF ~context.next THEN [p EXCEPT !.context = context]
     ELSE IF ~device.found THEN failed("DEV01")
     ELSE IF device.row.status # "Active" THEN failed("DEV01")
     ELSE IssueAndStore(p, context, request.CertificateRequest, context.deviceID, device.row,
                        serialNumber, request.fault)

\* no validation runs alone: result and note are the receipt's and the
\* credit/debit note's ValidationResult, colors the colors emitted into each
NoCalc ==
  [result |-> NoResult, note |-> NoResult, colors |-> <<>>, noteColors |-> <<>>,
   merged |-> FALSE]

\* a request arrives and makes its first repository calls
Begin(i, req, r) ==
  /\ FreeSlot(i)
  /\ nOps < run.limit
  /\ nOps' = nOps + 1
  /\ faultsLeft' = IF req.fault # 0 THEN faultsLeft - 1 ELSE faultsLeft
  /\ Commit(i, r, Delivered(slots))

\* a request in progress makes its next repository call
Continue(i, r) ==
  /\ Commit(i, r, slots)
  /\ UNCHANGED <<nOps, faultsLeft>>

OpenFiscalDay_Load ==
  \E i \in 1..NumSlots, req \in OpenRequests :
    Begin(i, req, OpenFiscalDayLoad(db, audit, Arrive("open", req, nOps + 1)))
OpenFiscalDay_Create ==
  \E i \in 1..NumSlots :
    slots[i].pc = "o_create" /\ Continue(i, OpenFiscalDayCreate(db, audit, slots[i]))

CloseFiscalDay_Load ==
  \E i \in 1..NumSlots, req \in CloseRequests :
    Begin(i, req, CloseFiscalDayLoad(db, audit, Arrive("close", req, nOps + 1)))
CloseFiscalDay_CheckErrors ==
  \E i \in 1..NumSlots :
    slots[i].pc = "c_errors" /\ Continue(i, CloseFiscalDayCheckErrors(db, audit, slots[i]))
CloseFiscalDay_Counters ==
  \E i \in 1..NumSlots :
    slots[i].pc = "c_counters" /\ Continue(i, CloseFiscalDayCounters(db, audit, slots[i]))
CloseFiscalDay_Update ==
  \E i \in 1..NumSlots :
    slots[i].pc = "c_update" /\ Continue(i, CloseFiscalDayUpdate(db, audit, slots[i]))
CloseFiscalDay_SaveCounters ==
  \E i \in 1..NumSlots :
    slots[i].pc = "c_save" /\ Continue(i, CloseFiscalDaySaveCounters(db, audit, slots[i]))
CloseFiscalDay_Respond ==
  \E i \in 1..NumSlots :
    slots[i].pc = "c_quantities" /\ Continue(i, CloseFiscalDayRespond(db, audit, slots[i]))

FiscalDay_GetStatus ==
  \E i \in 1..NumSlots, req \in StatusRequests :
    FreeSlot(i) /\ Begin(i, req, GetFiscalDayStatus(db, audit, Arrive("status", req, nOps + 1)))
SubmitReceipt_Load ==
  \E i \in 1..NumSlots, req \in SubmitRequests :
    Begin(i, req, SubmitReceiptLoad(db, audit, Arrive("submit", req, nOps + 1)))
SubmitReceipt_Dedup ==
  \E i \in 1..NumSlots :
    slots[i].pc = "s_dedup" /\ Continue(i, SubmitReceiptDedup(db, audit, slots[i]))
SubmitReceipt_Previous ==
  \E i \in 1..NumSlots :
    slots[i].pc = "s_previous" /\ Continue(i, SubmitReceiptPrevious(db, audit, slots[i]))
SubmitReceipt_Original ==
  \E i \in 1..NumSlots :
    slots[i].pc = "s_original" /\ Continue(i, SubmitReceiptOriginal(db, audit, slots[i]))
SubmitReceipt_Notes ==
  \E i \in 1..NumSlots :
    slots[i].pc = "s_notes" /\ Continue(i, SubmitReceiptNotes(db, audit, slots[i]))
SubmitReceipt_Create ==
  \E i \in 1..NumSlots :
    slots[i].pc = "s_create" /\ Continue(i, SubmitReceiptCreate(db, audit, slots[i]))
SubmitReceipt_UpdateDay ==
  \E i \in 1..NumSlots :
    slots[i].pc = "s_update" /\ Continue(i, SubmitReceiptUpdateDay(db, audit, slots[i]))

Start(limit, faults, record, notes) ==
  /\ calc = NoCalc
  /\ pki = NoPki
  /\ db = EmptyDB
  /\ audit = {}
  /\ slots = [i \in 1..NumSlots |-> IdleSlot]
  /\ nOps = 0
  /\ faultsLeft = faults
  /\ run = [limit |-> limit, record |-> record, notes |-> notes, credit |-> FALSE,
            two |-> FALSE, log |-> <<>>]

\* every repository call succeeds
Init == Start(MaxOps, 0, FALSE, FALSE)

\* write calls may meet a database failure
InitFault == Start(MaxFaultOps, MaxFaults, FALSE, FALSE)

\* the finished requests and their responses are recorded
InitSer == Start(MaxSerOps, 0, TRUE, FALSE)

\* devices also send debit notes
InitNotes == Start(MaxNoteOps, 0, FALSE, TRUE)

Next ==
  \/ OpenFiscalDay_Load
  \/ OpenFiscalDay_Create
  \/ CloseFiscalDay_Load
  \/ CloseFiscalDay_CheckErrors
  \/ CloseFiscalDay_Counters
  \/ CloseFiscalDay_Update
  \/ CloseFiscalDay_SaveCounters
  \/ CloseFiscalDay_Respond
  \/ FiscalDay_GetStatus
  \/ SubmitReceipt_Load
  \/ SubmitReceipt_Dedup
  \/ SubmitReceipt_Previous
  \/ SubmitReceipt_Original
  \/ SubmitReceipt_Notes
  \/ SubmitReceipt_Create
  \/ SubmitReceipt_UpdateDay

Spec == Init /\ [][Next]_vars

SpecFault == InitFault /\ [][Next]_vars

SpecSer == InitSer /\ [][Next]_vars

SpecNotes == InitNotes /\ [][Next]_vars

\* a fiscal_days row whose close is under way or has failed: the status
\* column admits 2=CloseInitiated and 3=CloseFailed, which the handlers read
\* and never write
StoredDay(deviceID, status) ==
  [NoDay EXCEPT !.id = 1, !.device_id = deviceID, !.fiscal_day_no = 1, !.status = status]

\* the database holds such a day for the device when the first request arrives
InitStored ==
  /\ calc = NoCalc
  /\ pki = NoPki
  /\ \E deviceID \in Devices,
        status \in {FiscalDayStatusCloseInitiated, FiscalDayStatusCloseFailed} :
        db = [EmptyDB EXCEPT !.fiscal_days = {StoredDay(deviceID, status)},
                             !.seq.fiscal_days_id = 1]
  /\ audit = {}
  /\ slots = [i \in 1..NumSlots |-> IdleSlot]
  /\ nOps = 0
  /\ faultsLeft = 0
  /\ run = [limit |-> MaxStoredOps, record |-> FALSE, notes |-> FALSE, credit |-> FALSE,
            two |-> FALSE, log |-> <<>>]

SpecStored == InitStored /\ [][Next]_vars

\* OpenFiscalDay and the SubmitReceipt of a clean USD invoice, one after the
\* other from the empty database: day 1 is Opened and holds receiptID 1
Accepted(deviceID) ==
  Once(RunToEnd(EmptyDB, {}, Arrive("open", [NoReq EXCEPT !.DeviceID = deviceID], 1)),
       LAMBDA opened :
         RunToEnd(opened.db, opened.audit,
                  Arrive("submit", [NoReq EXCEPT !.DeviceID = deviceID,
                                                 !.Receipt = Body(deviceID, 1, 1, "USD")], 2)))

\* the two requests have been served, and devices go on to send credit and
\* debit notes
InitCredit ==
  /\ calc = NoCalc
  /\ pki = NoPki
  /\ \E deviceID \in Devices :
       \E accepted \in {Accepted(deviceID)} :
         /\ db = accepted.db
         /\ audit = accepted.audit
  /\ slots = [i \in 1..NumSlots |-> IdleSlot]
  /\ nOps = 2
  /\ faultsLeft = 0
  /\ run = [limit |-> MaxCreditOps + 2, record |-> FALSE, notes |-> FALSE, credit |-> TRUE,
            two |-> FALSE, log |-> <<>>]

SpecCredit == InitCredit /\ [][Next]_vars

----------------------------------------------------------------------------
(* The validation result on its own: rules emit errors of any color in any   *)
(* order into the receipt's result, the credit/debit note rules emit theirs  *)
(* into the note's result, and SubmitReceipt merges the two                  *)

\* the colors ValidateReceipt passes to addError
ReceiptColors == {ValidationColorGrey, ValidationColorYellow, ValidationColorRed}

\* the color ValidateCreditDebitNote passes to addError: every rule of it
\* (RCPT032, 033, 034, 035, 036, 042, 029) emits Red
NoteColors == {ValidationColorRed}

\* a code emitted with each color
CodeOf(color) ==
  CASE color = ValidationColorGrey   -> "RCPT011"
    [] color = ValidationColorYellow -> "RCPT014"
    [] color = ValidationColorRed    -> "RCPT010"

Validation_ReceiptError ==
  /\ ~calc.merged
  /\ Len(calc.colors) < MaxErrors
  /\ \E color \in ReceiptColors :
       calc' = [calc EXCEPT !.result = addError(@, CodeOf(color), color),
                            !.colors = Append(@, color)]
  /\ UNCHANGED <<db, audit, slots, nOps, faultsLeft, run, pki>>

Validation_NoteError ==
  /\ ~calc.merged
  /\ Len(calc.noteColors) < MaxErrors
  /\ \E color \in NoteColors :
       calc' = [calc EXCEPT !.note = addError(@, "RCPT034", color),
                            !.noteColors = Append(@, color)]
  /\ UNCHANGED <<db, audit, slots, nOps, faultsLeft, run, pki>>

Validation_Merge ==
  /\ ~calc.merged
  /\ calc' = [calc EXCEPT !.result = mergeValidation(calc.result, calc.note),
                          !.merged = TRUE]
  /\ UNCHANGED <<db, audit, slots, nOps, faultsLeft, run, pki>>

NextValidation ==
  \/ Validation_ReceiptError
  \/ Validation_NoteError
  \/ Validation_Merge

SpecValidation == Start(0, 0, FALSE, FALSE) /\ [][NextValidation]_vars

----------------------------------------------------------------------------
(* Vocabulary of the properties *)

\* audit holds every receipt as SubmitReceipt held it in memory when
\* CreateWithLines committed it: the validation outcome, server date and
\* server signature the request computed, next to the ids the insert assigned
Blocking(a) == a.ValidationColor \in {ValidationColorRed, ValidationColorGrey}

\* the request body an audited receipt came from
Submitted(a) ==
  [Body(a.DeviceID, a.ReceiptCounter, a.ReceiptGlobalNo, a.ReceiptCurrency) EXCEPT
     !.ReceiptType = a.ReceiptType, !.HasCreditDebitNote = a.HasCreditDebitNote,
     !.CreditDebitNote = a.CreditDebitNote, !.ReceiptNotes = a.ReceiptNotes,
     !.ReceiptTotal = a.ReceiptTotal, !.ReceiptLines = a.ReceiptLines,
     !.ReceiptTaxes = a.ReceiptTaxes, !.ReceiptPayments = a.ReceiptPayments]

Row(id) == CHOOSE r \in db.receipts : r.id = id

Finished(i, kind) == slots[i].pc = "done" /\ slots[i].kind = kind

\* slot i makes the step
StepBy(i) == slots'[i] # slots[i]

Quiescent == \A i \in 1..NumSlots : ~InProgress(i)

----------------------------------------------------------------------------
(* C1: a CloseFiscalDay whose day holds an accepted receipt that was         *)
(* validated Red or Grey is rejected with FISC04 at the blocking-errors      *)
(* guard, and the stored data stays as it was.                               *)
C1_CloseRejectedOnBlockingReceipt ==
  [][\A i \in 1..NumSlots :
       ( /\ slots[i].pc = "c_errors"
         /\ \E a \in audit : a.FiscalDayID = slots[i].fiscalDay.id /\ Blocking(a)
         /\ StepBy(i) )
       => /\ slots'[i].pc = "done"
          /\ slots'[i].res.status = "error"
          /\ slots'[i].res.errorCode = "FISC04"
          /\ db' = db]_vars

(* C2: a SubmitReceipt that repeats the request of an already accepted       *)
(* receipt, sent on an open day after the first call has returned, returns   *)
(* success with the serverReceiptID, serverDate and serverSignature of the   *)
(* first call, and one row exists for (deviceID, receiptGlobalNo).           *)
C2_DuplicateSubmitIdempotent ==
  [][\A i \in 1..NumSlots :
       ( /\ slots[i].pc = "s_dedup"
         /\ \A j \in 1..NumSlots : j # i => ~InProgress(j)
         /\ \E a \in audit : Submitted(a) = slots[i].req.Receipt
         /\ StepBy(i) )
       => \E a \in audit :
            /\ Submitted(a) = slots[i].req.Receipt
            /\ slots'[i].pc = "done"
            /\ slots'[i].res.status = "ok"
            /\ slots'[i].res.ReceiptID = a.ReceiptID
            /\ slots'[i].res.ServerDate = a.ServerDate
            /\ slots'[i].res.ReceiptServerSignature = a.ReceiptServerSignature
            /\ Cardinality({r \in db'.receipts :
                              /\ r.device_id = a.DeviceID
                              /\ r.receipt_global_no = a.ReceiptGlobalNo}) = 1]_vars

(* C3: every device has at most one fiscal day whose status is not Closed.   *)
C3_AtMostOneOpenDay ==
  \A dev \in Devices :
    Cardinality({f \in db.fiscal_days :
                   f.device_id = dev /\ f.status # FiscalDayStatusClosed}) <= 1

(* C4: whenever no request is in progress, the finished requests can be put  *)
(* in an order in which, run one after another from the empty database, each *)
(* returns the response it returned and the database ends as it is.          *)
C4_Serializable ==
  (run.record /\ Quiescent) =>
    \E perm \in Permutations(1..Len(run.log)) :
      SerialRun(run.log, perm, 1, EmptyDB) = [same |-> TRUE, db |-> db]

(* C5: a finished SubmitReceipt either returned success with the receipt     *)
(* row, its lines, taxes and payments and the day's cursor all written, or   *)
(* returned a failure with none of them written.                             *)
C5_SubmitAllOrNothing ==
  \A i \in 1..NumSlots :
    Finished(i, "submit") =>
      \/ /\ slots[i].res.status = "ok"
         /\ slots[i].wrote = {"receipt", "cursor"}
         /\ \E r \in db.receipts :
              /\ r.receipt_id = slots[i].res.ReceiptID
              /\ \E l \in db.receipt_lines : l.receipt_id = r.id
              /\ \E x \in db.receipt_taxes : x.receipt_id = r.id
              /\ \E y \in db.receipt_payments : y.receipt_id = r.id
      \/ /\ slots[i].res.status # "ok"
         /\ slots[i].wrote = {}

(* C6: no fiscal day whose status is Closed holds a receipt that was         *)
(* validated Red or Grey.                                                    *)
C6_NoBlockingReceiptInClosedDay ==
  \A f \in db.fiscal_days :
    f.status = FiscalDayStatusClosed =>
      ~\E a \in audit : a.FiscalDayID = f.id /\ Blocking(a)

(* C7: a receipt that validation gave a color is accepted, and its stored    *)
(* row carries that color and the emitted error codes.                       *)
C7_ColorStoredWithReceipt ==
  \A a \in audit :
    a.ValidationColor # NoColor =>
      /\ \E r \in db.receipts : r.id = a.ID
      /\ Row(a.ID).validation_color = a.ValidationColor
      /\ Row(a.ID).validation_errors = a.ValidationErrors

(* C8: once a fiscal day is stored as Closed, no step changes its status,    *)
(* closedAt, reconciliation mode or signatures.                              *)
C8_ClosedIsTerminal ==
  [][\A f \in db.fiscal_days :
       f.status = FiscalDayStatusClosed =>
         \E g \in db'.fiscal_days :
           /\ g.id = f.id
           /\ g.status = f.status
           /\ g.fiscal_day_closed = f.fiscal_day_closed
           /\ g.reconciliation_mode = f.reconciliation_mode
           /\ g.fiscal_day_device_signature = f.fiscal_day_device_signature
           /\ g.fiscal_day_server_signature = f.fiscal_day_server_signature]_vars

(* C9: the receipts stored in one fiscal day carry, in the order they were   *)
(* accepted, the receiptCounter values 1, 2, ..., n.                         *)
C9_CountersSequentialPerDay ==
  \A r \in db.receipts :
    r.receipt_counter =
      1 + Cardinality({q \in db.receipts :
                         q.fiscal_day_id = r.fiscal_day_id /\ q.id < r.id})

(* C10: every receipt of a device has a receiptGlobalNo greater than that of *)
(* every receipt the device had accepted before it.                          *)
C10_GlobalNoStrictlyIncreasing ==
  \A r \in db.receipts, q \in db.receipts :
    (q.device_id = r.device_id /\ q.id < r.id) =>
      q.receipt_global_no < r.receipt_global_no

(* C11: in every fiscal day the stored receiptHash of the first receipt is   *)
(* the hash of its canonical encoding alone, and that of every later receipt *)
(* is the hash of its encoding followed by the stored receiptHash of the     *)
(* receipt stored immediately before it in the day.                          *)
C11_HashChain ==
  \A a \in audit :
    LET earlier == {q \in db.receipts : q.fiscal_day_id = a.FiscalDayID /\ q.id < a.ID}
        previousHash == IF earlier = {} THEN <<>>
                        ELSE (CHOOSE q \in earlier : \A p \in earlier : p.id <= q.id).receipt_hash
    IN Row(a.ID).receipt_hash = GenerateReceiptHash(a, previousHash)

(* C12: an accepted receipt with receiptCounter > 1 and an accepted          *)
(* currency, for which the day held no receipt with the receiptGlobalNo one  *)
(* less, was validated Grey with RCPT011 among its errors.                   *)
C12_ChainGapIsGrey ==
  \A a \in audit :
    ( /\ a.ReceiptCounter > 1
      /\ isValidCurrency(a.ReceiptCurrency)
      /\ ~\E q \in db.receipts : /\ q.device_id = a.DeviceID
                                 /\ q.fiscal_day_id = a.FiscalDayID
                                 /\ q.receipt_global_no = a.ReceiptGlobalNo - 1 )
    => /\ a.ValidationColor = ValidationColorGrey
       /\ \E k \in DOMAIN a.ValidationErrors : a.ValidationErrors[k] = "RCPT011"

(* C13: a SubmitReceipt that reaches the duplicate lookup with the           *)
(* (deviceID, receiptGlobalNo) of a stored receipt and a different currency, *)
(* hence a different receiptHash, is rejected with RCPT04 and the stored     *)
(* data stays as it was.                                                     *)
C13_DuplicateMismatchRejected ==
  [][\A i \in 1..NumSlots :
       ( /\ slots[i].pc = "s_dedup"
         /\ \E a \in audit : /\ a.DeviceID = slots[i].req.DeviceID
                             /\ a.ReceiptGlobalNo = slots[i].req.Receipt.ReceiptGlobalNo
                             /\ a.ReceiptCurrency # slots[i].req.Receipt.ReceiptCurrency
         /\ StepBy(i) )
       => /\ slots'[i].pc = "done"
          /\ slots'[i].res.status = "error"
          /\ slots'[i].res.errorCode = "RCPT04"
          /\ db' = db]_vars

\* the value aggregated from the stored receipts of a day for the key of
\* counter c; zero when no receipt of the day contributes to the key
Aggregated(d, fiscalDayID, c) ==
  LET same == {x \in calculateActualCounters(d, fiscalDayID) : counterKey(x) = counterKey(c)}
  IN IF same = {} THEN 0 ELSE (CHOOSE x \in same : TRUE).FiscalCounterValue

\* some counter of the list is more than one cent away from the aggregation
Mismatch(d, fiscalDayID, counters) ==
  \E k \in DOMAIN counters :
    Abs(counters[k].FiscalCounterValue - Aggregated(d, fiscalDayID, counters[k])) > 1

(* C14: a CloseFiscalDay that carries counters and reaches the counter       *)
(* comparison with some submitted counter more than 0.01 away from the value *)
(* aggregated from the day's stored receipts for the same key is rejected    *)
(* with FISC04, and the stored data stays as it was.                         *)
C14_CounterMismatchRejected ==
  [][\A i \in 1..NumSlots :
       ( /\ slots[i].pc = "c_counters"
         /\ Len(slots[i].req.FiscalDayCounters) > 0
         /\ Mismatch(db, slots[i].fiscalDay.id, slots[i].req.FiscalDayCounters)
         /\ StepBy(i) )
       => /\ slots'[i].pc = "done"
          /\ slots'[i].res.status = "error"
          /\ slots'[i].res.errorCode = "FISC04"
          /\ db' = db]_vars

\* the counters of all seven types aggregated from the stored receipts of a
\* day: the five the repository computes, CreditNoteTaxByTax and DebitNoteTaxByTax
SevenCounters(d, fiscalDayID) ==
  calculateActualCounters(d, fiscalDayID)
    \cup TaxCounters(d, fiscalDayID, ReceiptTypeCreditNote, 3, FALSE)
    \cup TaxCounters(d, fiscalDayID, ReceiptTypeDebitNote, 5, FALSE)

\* the elements of a list
Range(list) == {list[k] : k \in DOMAIN list}

(* C15: a CloseFiscalDay on an Opened day with no receipt validated Red or   *)
(* Grey, whose counter list is, without repetition, the aggregation of the   *)
(* day's stored receipts for all seven counter types, passes the counter     *)
(* comparison and goes on to close the day in Manual mode.                   *)
C15_ExactCountersAccepted ==
  [][\A i \in 1..NumSlots :
       ( /\ slots[i].pc = "c_counters"
         /\ Len(slots[i].req.FiscalDayCounters) > 0
         /\ Len(slots[i].req.FiscalDayCounters) = Cardinality(Range(slots[i].req.FiscalDayCounters))
         /\ Range(slots[i].req.FiscalDayCounters) = SevenCounters(db, slots[i].fiscalDay.id)
         /\ slots[i].fiscalDay.status = FiscalDayStatusOpened
         /\ ~\E a \in audit : a.FiscalDayID = slots[i].fiscalDay.id /\ Blocking(a)
         /\ StepBy(i) )
       => /\ slots'[i].pc = "c_update"
          /\ slots'[i].reconciliationMode = FiscalDayReconciliationModeManual]_vars

\* the signature that verifies against the device-side encoding of the day
Verifies(signature) == signature = "daySig"

(* C16: a CloseFiscalDay without counters whose device signature is missing  *)
(* or does not verify against the device-side encoding of the day is         *)
(* rejected when it reaches the signature check, and the stored data stays   *)
(* as it was.                                                                *)
C16_AutoCloseNeedsVerifiedSignature ==
  [][\A i \in 1..NumSlots :
       ( /\ slots[i].pc = "c_counters"
         /\ Len(slots[i].req.FiscalDayCounters) = 0
         /\ ~Verifies(slots[i].req.FiscalDayDeviceSignature)
         /\ StepBy(i) )
       => /\ slots'[i].pc = "done"
          /\ slots'[i].res.status = "error"
          /\ db' = db]_vars


(* C17: when a CloseFiscalDay without counters answers success, the counters *)
(* of the response and the counters stored for the day both equal the        *)
(* non-zero aggregation of the receipts stored in that day.                  *)
C17_AutoCountersAreAggregation ==
  [][\A i \in 1..NumSlots :
       ( /\ slots[i].pc = "c_quantities"
         /\ Len(slots[i].req.FiscalDayCounters) = 0
         /\ StepBy(i)
         /\ slots'[i].res.status = "ok" )
       => LET aggregation == {c \in SevenCounters(db, slots[i].fiscalDay.id) :
                                c.FiscalCounterValue # 0}
          IN /\ Range(slots'[i].res.FiscalDayCounters) = aggregation
             /\ Range(GetCounters(db', slots[i].fiscalDay.id)) = aggregation]_vars


\* fiscalDayRepository.GetByID: the fiscal_days row with this id, or nil
GetByID(d, id) ==
  IF \E x \in d.fiscal_days : x.id = id
    THEN CHOOSE x \in d.fiscal_days : x.id = id
    ELSE NoDay

(* C18: when a CloseFiscalDay answers success, the day is stored as Closed   *)
(* with its closing time set, and the counter rows stored for the day are    *)
(* exactly the counters of the response.                                     *)
C18_SuccessMeansClosedWithCounters ==
  [][\A i \in 1..NumSlots :
       ( /\ slots[i].pc = "c_quantities"
         /\ StepBy(i)
         /\ slots'[i].res.status = "ok" )
       => LET stored == GetCounters(db', slots[i].fiscalDay.id)
          IN /\ GetByID(db', slots[i].fiscalDay.id).status = FiscalDayStatusClosed
             /\ GetByID(db', slots[i].fiscalDay.id).fiscal_day_closed # 0
             /\ Len(stored) = Len(slots'[i].res.FiscalDayCounters)
             /\ Range(stored) = Range(slots'[i].res.FiscalDayCounters)]_vars


\* slot i takes a SubmitReceipt that arrives in this step
SubmitArrives(i) ==
  /\ nOps' = nOps + 1
  /\ slots'[i].kind = "submit"
  /\ slots'[i].t = nOps + 1

OpenArrives(i) ==
  /\ nOps' = nOps + 1
  /\ slots'[i].kind = "open"
  /\ slots'[i].t = nOps + 1

DaysOf(d, deviceID) == {x \in d.fiscal_days : x.device_id = deviceID}

(* C23: in every state, the fiscal days stored for a device carry the day    *)
(* numbers 1, 2, ..., n, each once, and a day with a larger number was       *)
(* opened later and inserted later than a day with a smaller one.            *)
C23_DayNumbersSequential ==
  \A deviceID \in Devices :
    LET days == DaysOf(db, deviceID)
    IN /\ {x.fiscal_day_no : x \in days} = 1..Cardinality(days)
       /\ \A x, y \in days :
            x.fiscal_day_no < y.fiscal_day_no
              => x.fiscal_day_opened < y.fiscal_day_opened /\ x.id < y.id

\* a device has days 1 and 2, and an OpenFiscalDay that computed a day number
\* already taken was refused by the insert
C23_Witness ==
  \E deviceID \in Devices :
    /\ Cardinality(DaysOf(db, deviceID)) = 2
    /\ \E i \in 1..NumSlots :
         /\ Finished(i, "open")
         /\ slots[i].req.DeviceID = deviceID
         /\ slots[i].res.status = "fault"


\* slot i takes a CloseFiscalDay that arrives in this step
CloseArrives(i) ==
  /\ nOps' = nOps + 1
  /\ slots'[i].kind = "close"
  /\ slots'[i].t = nOps + 1

StatusArrives(i) ==
  /\ nOps' = nOps + 1
  /\ slots'[i].kind = "status"
  /\ slots'[i].t = nOps + 1

(* C25: a GetFiscalDayStatus is answered with a success payload whatever the *)
(* device's current fiscal day is, and the payload carries a reconciliation  *)
(* mode exactly when the stored day has one.                                 *)
C25_StatusAlwaysAnswers ==
  [][\A i \in 1..NumSlots :
       StatusArrives(i)
       => LET fiscalDay == GetCurrent(db, slots'[i].req.DeviceID)
          IN /\ slots'[i].pc = "done"
             /\ slots'[i].res.status = "ok"
             /\ slots'[i].res.FiscalDayStatus = FiscalDayStatusString(fiscalDay.status)
             /\ (slots'[i].res.FiscalDayReconciliationMode # "NULL")
                  <=> (fiscalDay.reconciliation_mode # NoMode)]_vars


\* Red > Yellow > Grey > none
Severity(color) ==
  CASE color = ValidationColorRed    -> 3
    [] color = ValidationColorYellow -> 2
    [] color = ValidationColorGrey   -> 1
    [] color = NoColor               -> 0

\* the most severe color of a list, none for the empty list
MostSevere(colors) ==
  CHOOSE c \in Range(colors) \cup {NoColor} :
    \A k \in DOMAIN colors : Severity(colors[k]) <= Severity(c)

(* C26: whatever errors the rules emitted and in whatever order, the color   *)
(* of the receipt's validation result is the most severe color emitted into  *)
(* it, and after the credit/debit note result is merged into it, the most    *)
(* severe color emitted into either.                                         *)
C26_ColorIsMostSevere ==
  /\ calc.note.Color = MostSevere(calc.noteColors)
  /\ ~calc.merged => calc.result.Color = MostSevere(calc.colors)
  /\ calc.merged => calc.result.Color = MostSevere(calc.colors \o calc.noteColors)

\* Grey, then Yellow, then Grey again were emitted into the receipt's result
\* and a Red note result was merged into it
C26_Witness ==
  /\ calc.merged
  /\ calc.colors = <<ValidationColorGrey, ValidationColorYellow, ValidationColorGrey>>
  /\ Len(calc.noteColors) > 0
  /\ calc.result.Color = ValidationColorRed


\* the stored receipts a creditDebitNote names: by receiptID when it carries
\* one, else by deviceID, receiptGlobalNo and fiscalDayNo
Resolve(d, reference) ==
  {r \in d.receipts :
     IF reference.ReceiptID # 0 THEN r.receipt_id = reference.ReceiptID
     ELSE /\ r.device_id = reference.DeviceID
          /\ r.receipt_global_no = reference.ReceiptGlobalNo
          /\ GetByID(d, r.fiscal_day_id).fiscal_day_no = reference.FiscalDayNo}

\* the stored notes of a type whose creditDebitNote names the receipt
NotesAgainst(d, original, receiptType) ==
  {r \in d.receipts : r.receipt_type = receiptType /\ original \in Resolve(d, r.credit_debit_note)}

\* what the stored notes of a type against the receipt add up to
NoteTotal(d, original, receiptType) ==
  SumOf([r \in NotesAgainst(d, original, receiptType) |-> Abs(r.receipt_total)],
        NotesAgainst(d, original, receiptType))

\* with this credit note, the amount credited against the invoice is more
\* than the invoice total plus the amount debited against it
Overdrawn(d, note) ==
  \E original \in Resolve(d, note.CreditDebitNote) :
    /\ original.receipt_type = ReceiptTypeFiscalInvoice
    /\ NoteTotal(d, original, ReceiptTypeCreditNote) + Abs(note.ReceiptTotal)
         > original.receipt_total + NoteTotal(d, original, ReceiptTypeDebitNote)

(* C27: a credit note that reaches the insert while the credit notes stored   *)
(* against its invoice, together with it, add up to more than the invoice    *)
(* total plus the debit notes stored against that invoice, is stored, and    *)
(* its validation result is Red and lists RCPT035.                           *)
C27_OverdrawnCreditIsRed ==
  [][\A i \in 1..NumSlots :
       ( /\ slots[i].pc = "s_create"
         /\ slots[i].receipt.ReceiptType = ReceiptTypeCreditNote
         /\ Overdrawn(db, slots[i].receipt)
         /\ StepBy(i) )
       => /\ slots'[i].pc = "s_update"
          /\ slots'[i].receipt.ValidationColor = ValidationColorRed
          /\ \E k \in DOMAIN slots'[i].receipt.ValidationErrors :
               slots'[i].receipt.ValidationErrors[k] = "RCPT035"]_vars


(* C28: a credit note or debit note that reaches the insert while its        *)
(* creditDebitNote names no stored receipt, by receiptID or by deviceID,     *)
(* receiptGlobalNo and fiscalDayNo, is stored with a Red validation result   *)
(* that lists RCPT032.                                                       *)
C28_UnresolvedReferenceIsRed ==
  [][\A i \in 1..NumSlots :
       ( /\ slots[i].pc = "s_create"
         /\ slots[i].receipt.ReceiptType \in {ReceiptTypeCreditNote, ReceiptTypeDebitNote}
         /\ slots[i].receipt.HasCreditDebitNote
         /\ Resolve(db, slots[i].receipt.CreditDebitNote) = {}
         /\ StepBy(i) )
       => /\ slots'[i].receipt.ValidationColor = ValidationColorRed
          /\ \E k \in DOMAIN slots'[i].receipt.ValidationErrors :
               slots'[i].receipt.ValidationErrors[k] = "RCPT032"]_vars


----------------------------------------------------------------------------
(* Certificates on their own: devices register and renew, and every request  *)
(* of a protected route passes the certificate middleware                    *)

PublicKeys == {"pk1", "pk2"}

\* certificate requests a device sends: for either device's CN, signed or
\* not, or text that is no CSR
CertificateRequests ==
  {NoCSR} \cup
  {[decodes |-> TRUE, CommonName |-> ExpectedCN(DeviceTable[d].device_serial_no, d),
    PublicKey |-> k, signed |-> sg] : d \in {1001, 1002}, k \in PublicKeys, sg \in BOOLEAN}

RegistrationRequests ==
  {[DeviceID |-> d, ActivationKey |-> key, CertificateRequest |-> csr,
    modelName |-> "Model", modelVersion |-> "v1", fault |-> f]
     : d \in ProvisionedDevices \cup {1004}, key \in {"key00001", "WRONG000"},
       csr \in CertificateRequests, f \in Faults(2)}

\* certificates the CA has issued, current or superseded
IssuedCertificates(p) ==
  {h.certificate : h \in p.certificate_history}
  \cup {p.devices[d].certificate : d \in {e \in DOMAIN p.devices :
                                            p.devices[e].certificate_thumbprint # NoThumbprint}}

\* certificates a client makes itself
ForeignCertificates ==
  {[SerialNumber |-> 1, CommonName |-> cn, PublicKey |-> "pk1", Issuer |-> "self"]
     : cn \in {<<"1", "0", "0", "2">>, <<"x">>}}

\* requests on a protected route: over TLS with a certificate the CA issued,
\* or without TLS and with any certificate, text that is none, or nothing in
\* the X-SSL-Client-Cert header
ProtectedRequests(p) ==
  {[path |-> "/device/issue-certificate", TLS |-> TRUE, PeerCertificates |-> <<cert>>,
    certHeader |-> [present |-> FALSE, parses |-> FALSE, cert |-> NoCertificate],
    CertificateRequest |-> csr, fault |-> f]
     : cert \in IssuedCertificates(p), csr \in CertificateRequests, f \in Faults(2)}
  \cup
  {[path |-> "/device/issue-certificate", TLS |-> FALSE, PeerCertificates |-> <<>>,
    certHeader |-> [present |-> TRUE, parses |-> TRUE, cert |-> cert],
    CertificateRequest |-> csr, fault |-> f]
     : cert \in IssuedCertificates(p) \cup ForeignCertificates, csr \in CertificateRequests,
       f \in Faults(2)}
  \cup
  {[path |-> "/device/issue-certificate", TLS |-> FALSE, PeerCertificates |-> <<>>,
    certHeader |-> [present |-> present, parses |-> FALSE, cert |-> NoCertificate],
    CertificateRequest |-> NoCSR, fault |-> 0]
     : present \in BOOLEAN}

Device_RegisterDevice ==
  /\ pki.issued < MaxIssued
  /\ \E req \in RegistrationRequests, serialNumber \in 1..MaxSerialNumber :
       /\ pki' = RegisterDevice(pki, req, serialNumber)
       /\ faultsLeft' = IF req.fault # 0 THEN faultsLeft - 1 ELSE faultsLeft
  /\ UNCHANGED <<db, audit, slots, nOps, run, calc>>

Device_IssueCertificate ==
  /\ pki.issued < MaxIssued
  /\ \E request \in ProtectedRequests(pki), serialNumber \in 1..MaxSerialNumber :
       /\ pki' = RenewCertificate(pki, request, serialNumber)
       /\ faultsLeft' = IF request.fault # 0 THEN faultsLeft - 1 ELSE faultsLeft
  /\ UNCHANGED <<db, audit, slots, nOps, run, calc>>

VerifyTaxpayerRequests ==
  {[DeviceID |-> d, ActivationKey |-> key, DeviceSerialNo |-> serialNo,
    modelName |-> "Model", modelVersion |-> "v1"]
     : d \in ProvisionedDevices \cup {1004}, key \in {"key00001", "WRONG000"},
       serialNo \in {<<"S", "1">>, <<"S", "2">>}}

\* a VerifyTaxpayer that resets the certificate columns it has looked at
VerifyTaxpayerResetting(p, req) ==
  [p EXCEPT !.devices = [d \in DOMAIN @ |-> NoCertificateColumns],
            !.context = [NoContext EXCEPT !.path = "/device/verify-taxpayer", !.next = TRUE,
                                          !.status = 200]]

\* DeviceService.VerifyTaxpayer behind DeviceHandler.VerifyTaxpayer: it
\* reads the blacklist, the devices row and the taxpayers row, and answers
VerifyTaxpayer(p, req) ==
  LET context == [NoContext EXCEPT !.path = "/device/verify-taxpayer", !.next = TRUE]
      device  == GetByDeviceID(req.DeviceID)
      failed(code) == [p EXCEPT !.context = [context EXCEPT !.status = 422, !.errorCode = code]]
  IN IF IsBlacklisted(req.modelName, req.modelVersion) THEN failed("DEV04")
     ELSE IF ~device.found THEN failed("DEV01")
     ELSE IF ~EqualFold(device.row.activation_key, req.ActivationKey) THEN failed("DEV02")
     ELSE IF device.row.device_serial_no # req.DeviceSerialNo THEN failed("DEV01")
     ELSE IF device.row.taxpayer_id \notin DOMAIN TaxpayerTable THEN failed("DEV05")
     ELSE IF TaxpayerTable[device.row.taxpayer_id].status # "Active" THEN failed("DEV05")
     ELSE [p EXCEPT !.context = [context EXCEPT !.status = 200]]

Device_VerifyTaxpayer ==
  /\ pki.issued <= MaxIssued
  /\ \E req \in VerifyTaxpayerRequests : pki' = VerifyTaxpayer(pki, req)
  /\ UNCHANGED <<db, audit, slots, nOps, faultsLeft, run, calc>>

NextDevice ==
  \/ Device_RegisterDevice
  \/ Device_IssueCertificate
  \/ Device_VerifyTaxpayer

SpecDevice == Start(0, 0, FALSE, FALSE) /\ [][NextDevice]_vars

\* the same where a write call may meet a database failure
SpecDeviceFault == Start(0, MaxFaults, FALSE, FALSE) /\ [][NextDevice]_vars

\* the devices rows that hold the thumbprint
DevicesWithThumbprint(p, thumbprint) ==
  {d \in DOMAIN p.devices : p.devices[d].certificate_thumbprint = thumbprint}

(* C29: when a request on a certificate route is handed to its handler       *)
(* under a deviceID, the thumbprint of the client certificate it came with   *)
(* is the thumbprint stored on that device; and a request whose certificate  *)
(* has the thumbprint of no device is answered 401 and not handed on.        *)
C29_ProcessedOnlyWithStoredThumbprint ==
  [][pki'.context.path = "/device/issue-certificate" =>
       /\ pki'.context.exists =>
            pki'.context.deviceID \in DevicesWithThumbprint(pki, sha1(pki'.context.presented))
       /\ DevicesWithThumbprint(pki, sha1(pki'.context.presented)) = {} =>
            pki'.context.status = 401 /\ ~pki'.context.next]_vars

(* C30: no two devices rows hold the same non-null certificate thumbprint.   *)
C30_ThumbprintsUnique ==
  \A d1, d2 \in DOMAIN pki.devices :
    ( /\ d1 # d2
      /\ pki.devices[d1].certificate_thumbprint # NoThumbprint )
    => pki.devices[d1].certificate_thumbprint # pki.devices[d2].certificate_thumbprint

\* two devices hold certificates with the same serial number and public
\* key, and a third certificate was issued
C30_Witness ==
  /\ pki.issued = 3
  /\ pki.devices[1001].certificate_thumbprint # NoThumbprint
  /\ pki.devices[1002].certificate_thumbprint # NoThumbprint
  /\ pki.devices[1001].certificate.SerialNumber = pki.devices[1002].certificate.SerialNumber
  /\ pki.devices[1001].certificate.PublicKey = pki.devices[1002].certificate.PublicKey


\* the certificates_history row that goes with a devices row
HistoryEntry(p, d) ==
  [device_id |-> d, certificate |-> p.devices[d].certificate,
   certificate_thumbprint |-> p.devices[d].certificate_thumbprint]

(* C31: a RegisterDevice call leaves no devices row changed without the      *)
(* certificate history row that goes with it, and when it answers 200 one    *)
(* device holds a certificate whose history row is stored and no other row   *)
(* has changed.                                                              *)
C31_RegisterStoresRowAndHistoryTogether ==
  [][pki'.context.path = "/device/register" =>
       /\ \A d \in DOMAIN pki.devices :
            pki'.devices[d] # pki.devices[d] =>
              HistoryEntry(pki', d) \in pki'.certificate_history
       /\ pki'.context.status = 200 =>
            \E d \in DOMAIN pki.devices :
              /\ pki'.devices[d].certificate_thumbprint # NoThumbprint
              /\ HistoryEntry(pki', d) \in pki'.certificate_history
              /\ \A e \in DOMAIN pki.devices \ {d} : pki'.devices[e] = pki.devices[e]]_vars


(* C32: a VerifyTaxpayer call, answered 200 or rejected, leaves the devices  *)
(* rows with their certificates, the certificate history, the fiscal days,   *)
(* the receipts and the counters as they were.                               *)
C32_VerifyTaxpayerChangesNothing ==
  [][pki'.context.path = "/device/verify-taxpayer" =>
       /\ pki'.devices = pki.devices
       /\ pki'.certificate_history = pki.certificate_history
       /\ pki'.issued = pki.issued
       /\ db' = db]_vars

\* VerifyTaxpayer has answered 200 while two devices hold certificates
C32_Witness ==
  /\ pki.context.path = "/device/verify-taxpayer"
  /\ pki.context.status = 200
  /\ pki.devices[1001].certificate_thumbprint # NoThumbprint
  /\ pki.devices[1002].certificate_thumbprint # NoThumbprint
  /\ pki.certificate_history # {}


\* the stored lines, taxes and payments of a receipts row
RelationsOf(d, r) ==
  [lines    |-> {x \in d.receipt_lines : x.receipt_id = r.id},
   taxes    |-> {x \in d.receipt_taxes : x.receipt_id = r.id},
   payments |-> {x \in d.receipt_payments : x.receipt_id = r.id}]

(* C33: a stored receipt stays as it is: no step of a later submit, open,    *)
(* close or status request changes a column of its row or any of its         *)
(* lines, taxes and payments, or removes it.                                 *)
C33_StoredReceiptsNeverChange ==
  [][\A r \in db.receipts :
       /\ r \in db'.receipts
       /\ RelationsOf(db', r) = RelationsOf(db, r)]_vars

\* two receipts are stored and the day that holds the first has been closed
C33_Witness ==
  \E r, q \in db.receipts :
    /\ r.id < q.id
    /\ \E f \in db.fiscal_days : f.id = r.fiscal_day_id /\ f.status = FiscalDayStatusClosed


(* C34: when SubmitReceipt has answered ok, the signature in the response    *)
(* is the server's signature over the device signature, the receiptID of     *)
(* the response and the serverDate of the response, and the receipts row     *)
(* with that receiptID holds the same serverDate and the same signature.     *)
C34_SignatureCoversReturnedAndStoredValues ==
  \A i \in 1..NumSlots :
    ( /\ slots[i].pc = "done"
      /\ slots[i].kind = "submit"
      /\ slots[i].res.status = "ok" )
    => /\ slots[i].res.ReceiptServerSignature.Signature =
            SignData(<<slots[i].req.Receipt.ReceiptDeviceSignature,
                       slots[i].res.ReceiptID, slots[i].res.ServerDate>>)
       /\ \E r \in db.receipts :
            /\ r.receipt_id = slots[i].res.ReceiptID
            /\ r.server_date = slots[i].res.ServerDate
            /\ r.receipt_server_signature = slots[i].res.ReceiptServerSignature


----------------------------------------------------------------------------
(* The receipt hash on its own: a receipt with any tax rows is hashed, and   *)
(* so is the receipt with the same rows in another order                     *)

\* tax rows a receipt carries
TaxRows ==
  {[TaxID |-> id, TaxCode |-> code, TaxPercent |-> TaxPercent, TaxAmount |-> amount,
    SalesAmountWithTax |-> ReceiptTotalCents]
     : id \in {1, 2}, code \in {NoTaxCode, "A", "B"}, amount \in {TaxAmountCents, 2 * TaxAmountCents}}

TaxLists == UNION {[1..n -> TaxRows] : n \in 0..MaxTaxRows}

\* a receipt waits to be hashed, as the first of its day or after another
InitHash ==
  /\ \E taxes \in TaxLists, previousHash \in {<<>>, <<"sha256", "1001FISCALINVOICEUSD110000", <<>>>>} :
       calc = [step |-> "receipt",
               receipt |-> [Body(1001, 2, 2, "USD") EXCEPT !.ReceiptTaxes = taxes],
               previousHash |-> previousHash,
               hash |-> <<>>, other |-> NoBody, otherHash |-> <<>>]
  /\ pki = NoPki
  /\ db = EmptyDB
  /\ audit = {}
  /\ slots = [i \in 1..NumSlots |-> IdleSlot]
  /\ nOps = 0
  /\ faultsLeft = 0
  /\ run = [limit |-> 0, record |-> FALSE, notes |-> FALSE, credit |-> FALSE, two |-> FALSE,
            log |-> <<>>]

Hash_Generate ==
  /\ calc.step = "receipt"
  /\ calc' = [calc EXCEPT !.step = "hashed",
                          !.hash = GenerateReceiptHash(calc.receipt, calc.previousHash)]
  /\ UNCHANGED <<db, audit, slots, nOps, faultsLeft, run, pki>>

Hash_Reordered ==
  /\ calc.step = "hashed"
  /\ \E order \in Permutations(DOMAIN calc.receipt.ReceiptTaxes) :
       LET other == [calc.receipt EXCEPT
                       !.ReceiptTaxes = [k \in DOMAIN @ |-> calc.receipt.ReceiptTaxes[order[k]]]]
       IN calc' = [calc EXCEPT !.step = "reordered", !.other = other,
                               !.otherHash = GenerateReceiptHash(other, calc.previousHash)]
  /\ UNCHANGED <<db, audit, slots, nOps, faultsLeft, run, pki>>

NextHash ==
  \/ Hash_Generate
  \/ Hash_Reordered

SpecHash == InitHash /\ [][NextHash]_vars

(* C35: a receipt and the receipt with the same field values and the same    *)
(* tax rows listed in another order have the same canonical text and the     *)
(* same hash.                                                                *)
C35_HashIgnoresTaxRowOrder ==
  calc.step = "reordered" =>
    /\ CanonicalReceipt(calc.other) = CanonicalReceipt(calc.receipt)
    /\ calc.otherHash = calc.hash


C37_NoInsertIntoClosedDay ==
  [][\A r \in db'.receipts \ db.receipts :
       \A f \in db.fiscal_days :
         f.id = r.fiscal_day_id => f.status # FiscalDayStatusClosed]_vars


(* C38: whenever no operation is in progress, the last_receipt_global_no of  *)
(* every fiscal day is the greatest receipt_global_no among the receipts     *)
(* stored in that day, and is unset when the day holds none.                 *)
C38_CursorIsGreatestGlobalNo ==
  Quiescent =>
    \A f \in db.fiscal_days :
      f.last_receipt_global_no =
        Max({r.receipt_global_no : r \in {q \in db.receipts : q.fiscal_day_id = f.id}} \cup {0})


(* C39: a CloseFiscalDay that returns FISC03 or FISC04 has written nothing:  *)
(* the step on which it returns leaves every fiscal day (status, closedAt,   *)
(* reconciliation mode, signatures, cursor) and every stored counter row as  *)
(* it was, and no earlier step of the call wrote either.                     *)
C39_RefusedCloseChangesNothing ==
  [][\A i \in 1..NumSlots :
       (/\ StepBy(i)
        /\ slots'[i].kind = "close"
        /\ slots'[i].pc = "done"
        /\ slots'[i].res.errorCode \in {"FISC03", "FISC04"})
         => /\ slots'[i].wrote = {}
            /\ db'.fiscal_days = db.fiscal_days
            /\ db'.fiscal_counters = db.fiscal_counters]_vars

\* a close with counters that do not match was refused with FISC04 while the
\* device's day is Opened and holds a receipt
C39_Witness ==
  \E i \in 1..NumSlots :
    /\ Finished(i, "close")
    /\ slots[i].res.errorCode = "FISC04"
    /\ Len(slots[i].req.FiscalDayCounters) > 0
    /\ \E f \in db.fiscal_days :
         /\ f.device_id = slots[i].req.DeviceID
         /\ f.status = FiscalDayStatusOpened
         /\ \E r \in db.receipts : r.fiscal_day_id = f.id


----------------------------------------------------------------------------
(* Two devices send their requests side by side *)

InitTwo ==
  /\ calc = NoCalc
  /\ pki = NoPki
  /\ db = EmptyDB
  /\ audit = {}
  /\ slots = [i \in 1..NumSlots |-> IdleSlot]
  /\ nOps = 0
  /\ faultsLeft = 0
  /\ run = [limit |-> MaxTwoOps, record |-> FALSE, notes |-> FALSE, credit |-> FALSE,
            two |-> TRUE, log |-> <<>>]

SpecTwo == InitTwo /\ [][Next]_vars

\* the fiscal days of a device, its receipts with their lines, taxes and
\* payments, and the counter rows of its days
StateOf(d, deviceID) ==
  LET days == {f \in d.fiscal_days : f.device_id = deviceID}
  IN [fiscal_days |-> days,
      receipts |-> {<<r, RelationsOf(d, r)>> : r \in {q \in d.receipts : q.device_id = deviceID}},
      fiscal_counters |-> {c \in d.fiscal_counters : \E f \in days : f.id = c.fiscal_day_id}]

====
